---- MODULE Spec2Model ----
(***************************************************************************)
(* Graph-convolution core of NBPCE: periodic readout (nn.py), boundary     *)
(* padder, periodic K-NN graph builder, batch COO assembler and the        *)
(* 15-operator shift-invariant layer (graph.py).                           *)
(*                                                                         *)
(* Real-valued quantities are held in fixed point.  A readout coordinate v *)
(* stands for v / RS, a particle coordinate c for c / G, the boundary      *)
(* threshold t for t / G.  Comparisons, sums and squared distances of such *)
(* values are exact in integers.  Array indices are 0-based as in the      *)
(* source; the arrays themselves are TLA+ sequences, read with At.         *)
(***************************************************************************)
EXTENDS Integers, Sequences, FiniteSets, TLC

VARIABLES
  pc,                 \* position of the driver that calls the operations
  x_hat,              \* get_readout: predicted position, 3 coordinates
  readout_xhat,       \* get_readout: returned position
  clone_cube,         \* current sample's positions, (N, 3)
  boundary_threshold, \* pad_cube_boundaries / get_pbc_kneighbors_csr argument
  K,                  \* number of neighbors asked for
  include_self,       \* include_self argument of get_pbc_kneighbors_csr
  padded_cube,        \* pad_cube_boundaries: returned x
  idx_map,            \* pad_cube_boundaries: returned idx_list
  kgraph_raw,         \* indices of kneighbors_graph(...)[:N] before the remap loop
  csr_list,           \* get_pbc_kneighbors_csr: list of remapped adjacencies
  alist,              \* get_pcube_adjacency_list: returned (N, K) array
  A,                  \* assembler argument: list of CSR adjacencies
  COO_feats,          \* to_coo_batch / to_coo_batch_ZA_diag: row, col, cube arrays
  diagonals,          \* to_coo_batch_ZA_diag: returned diagonal positions
  CSR_feats,          \* get_indices_from_list_CSR: returned column indices
  H_in,               \* shift_inv_15op_layer: input edge features, (S, 1)
  adj,                \* shift_inv_15op_layer: index bundle row/col/all/tra/dia/dal
  bN,                 \* shift_inv_15op_layer: (b, N)
  layer_vars,         \* shift_inv_15op_layer: (W, B)
  is_last,            \* shift_inv_15op_layer: is_last flag
  H_out,              \* shift_inv_15op_layer: returned features
  init_pos,           \* get_input_features_shift_inv_ZA: positions, (b, N, 3)
  ZA_displacement,    \* get_input_features_shift_inv_ZA: displacements, (b, N, 3)
  coo,                \* get_input_features_*: row, col, cube arrays
  diag,               \* get_input_features_shift_inv_ZA: diagonal positions
  dims,               \* get_input_features_*: (b, N, M)
  features_out,       \* get_input_features_*: returned edge features
  nodes,              \* get_input_features_shift_inv: returned node features
  A_csr,              \* rot_inv: list of CSR adjacencies with their data
  M_nbrs,             \* rot_inv: number of neighbors m, self included
  segment_idx_3D,     \* pre_process_adjacency_batch: returned (b, 7, e) ids
  segment_idx_2D,     \* get_segment_idx_2D: returned (rows, cols) of pairs
  X_edges,            \* RotInv_layer: input features, (b, e, 1)
  W_rot,              \* init_RotInv_params: the variables of the scope, by tag
  layer_id,           \* RotInv_layer: which layer's variables are used
  rot_is_last,        \* RotInv_layer: is_last flag
  layer_output,       \* RotInv_layer: returned features
  X_init,             \* get_final_position: X_in, initial positions (b, N, 3)
  final_positions,    \* get_final_position: returned positions
  mse_x_hat,          \* get_bounded_MSE: predictions, one row per particle
  mse_x_true,         \* get_bounded_MSE: true values, one row per particle
  mse_boundary,       \* get_bounded_MSE: (lower, upper)
  mse_loss,           \* get_bounded_MSE: returned loss
  num_layers,         \* network_func_*: num_layers argument
  net_layer_idx,      \* network_func_*: layer_idx, the next layer to run
  net_calls,          \* network_func_*: the layer calls made so far
  cube_A,             \* _make_cube_adjacency_*: the adjacency, CSR with data
  cube_m,             \* _make_cube_adjacency_sparse: m, self included
  cube_sparse,        \* _make_cube_adjacency_sparse: returned (r, c, d)
  cube_dense          \* _make_cube_adjacency_dense: returned (r, c, d)

vars == <<pc, x_hat, readout_xhat, clone_cube, boundary_threshold, K,
          include_self, padded_cube, idx_map, kgraph_raw, csr_list, alist,
          A, COO_feats, diagonals, CSR_feats,
          H_in, adj, bN, layer_vars, is_last, H_out,
          init_pos, ZA_displacement, coo, diag, dims, features_out, nodes,
          A_csr, M_nbrs, segment_idx_3D, segment_idx_2D, X_edges, W_rot,
          layer_id, rot_is_last, layer_output, X_init, final_positions,
          mse_x_hat, mse_x_true, mse_boundary, mse_loss,
          num_layers, net_layer_idx, net_calls,
          cube_A, cube_m, cube_sparse, cube_dense>>

readoutVars == <<x_hat, readout_xhat>>
pbcVars == <<clone_cube, boundary_threshold, K, include_self, padded_cube,
             idx_map, kgraph_raw, csr_list, alist>>
cooVars == <<A, COO_feats, diagonals, CSR_feats>>
layerVars == <<H_in, adj, bN, layer_vars, is_last, H_out>>
featVars == <<init_pos, ZA_displacement, coo, diag, dims, features_out, nodes>>

rotVars == <<A_csr, M_nbrs, segment_idx_3D, segment_idx_2D, X_edges, W_rot,
             layer_id, rot_is_last, layer_output, X_init, final_positions>>

lossVars == <<mse_x_hat, mse_x_true, mse_boundary, mse_loss>>

netVars == <<num_layers, net_layer_idx, net_calls>>

cubeVars == <<cube_A, cube_m, cube_sparse, cube_dense>>

\* the components that follow the layer, and their state before any call
extVars == <<featVars, rotVars, lossVars, netVars, cubeVars>>

FeatIdle ==
  /\ init_pos = <<>> /\ ZA_displacement = <<>> /\ coo = <<>> /\ diag = <<>>
  /\ dims = <<>> /\ features_out = <<>> /\ nodes = <<>>

RotIdle ==
  /\ A_csr = <<>> /\ M_nbrs = 0 /\ segment_idx_3D = <<>>
  /\ segment_idx_2D = <<>> /\ X_edges = <<>> /\ W_rot = <<>> /\ layer_id = 0
  /\ rot_is_last = FALSE /\ layer_output = <<>> /\ X_init = <<>>
  /\ final_positions = <<>>

LossIdle ==
  /\ mse_x_hat = <<>> /\ mse_x_true = <<>> /\ mse_boundary = <<>>
  /\ mse_loss = <<>>

NetIdle == num_layers = 0 /\ net_layer_idx = 0 /\ net_calls = <<>>

CubeIdle ==
  cube_A = <<>> /\ cube_m = 0 /\ cube_sparse = <<>> /\ cube_dense = <<>>

ExtIdle == FeatIdle /\ RotIdle /\ LossIdle /\ NetIdle /\ CubeIdle

\* the state of the components up to the layer before any call
CoreIdle ==
  /\ x_hat = <<>> /\ readout_xhat = <<>>
  /\ clone_cube = <<>> /\ boundary_threshold = 0 /\ K = 0
  /\ include_self = FALSE /\ padded_cube = <<>> /\ idx_map = <<>>
  /\ kgraph_raw = <<>> /\ csr_list = <<>> /\ alist = <<>>
  /\ A = <<>> /\ COO_feats = <<>> /\ diagonals = <<>> /\ CSR_feats = <<>>
  /\ H_in = <<>> /\ adj = <<>> /\ bN = <<>> /\ layer_vars = <<>>
  /\ is_last = FALSE /\ H_out = <<>>

(***************************************************************************)
(* Bounds                                                                  *)
(***************************************************************************)
RS == 10       \* readout fixed point: v stands for v / RS
G == 5         \* position fixed point: c stands for c / G
NP == 3        \* particles per sample in the neighbor search
MaxK == 3      \* largest K asked for
PadN == 2      \* particles per cube when the padder is run on its own
NC == 2        \* particles per sample handed to the assembler
MaxM == 2      \* largest number of stored entries per adjacency row
MaxB == 2      \* largest batch handed to the assembler
LN == 2        \* particles per sample in the layer
LB == 2        \* largest batch in the layer
FN == 2        \* particles per sample in the feature builder
FM == 2        \* largest number of neighbors in the feature builder
FB == 2        \* largest batch in the feature builder
RN == 4        \* particles per sample in the rotation-invariant model
RM == 3        \* largest number of neighbors there, self included
RB == 2        \* largest batch there
LossG == 4     \* grid steps per box side in the loss
LossN == 2     \* particles in the loss
MinN == 2      \* particles in the minimum-image loss
IrrM == 2      \* most stored entries of a row of an irregular adjacency
WideM == 4     \* largest number of neighbors in the wide rotation-invariant model
MaxLayers == 3 \* largest num_layers of a network
CubeM == 4     \* largest m of the cube builders

(***************************************************************************)
(* Array helpers                                                           *)
(***************************************************************************)
At(s, i) == s[i + 1]

Range(s) == {s[i] : i \in 1..Len(s)}

\* the sequence f[lo], ..., f[hi] with every element computed once
RECURSIVE ArrayOf(_, _, _)
ArrayOf(f, lo, hi) ==
  IF lo > hi THEN <<>>
  ELSE IF lo = hi THEN <<f[lo]>>
  ELSE LET mid == (lo + hi) \div 2
       IN  ArrayOf(f, lo, mid) \o ArrayOf(f, mid + 1, hi)

AsArray(f, n) == ArrayOf(f, 1, n)

RECURSIVE Repeat(_, _)
Repeat(v, n) == IF n = 0 THEN <<>> ELSE <<v>> \o Repeat(v, n - 1)

RECURSIVE Concat(_)
Concat(ss) == IF ss = <<>> THEN <<>> ELSE Head(ss) \o Concat(Tail(ss))

Axes == 1..3

(***************************************************************************)
(* nn.py: get_readout                                                      *)
(***************************************************************************)
\* F.sign
sign(v) == IF v > 0 THEN 1 ELSE IF v < 0 THEN -1 ELSE 0

\* one coordinate of get_readout; the constant 1 of the source is RS here.
\* Python parses  -(F.sign(readout) - 1) // 2  as  (-(sign - 1)) // 2 .
readout_coord(v) ==
  LET gt_one  == (sign(v - RS) + 1) \div 2
      ls_zero == (-(sign(v) - 1)) \div 2
      rest    == 1 - gt_one - ls_zero
  IN  rest * v + gt_one * (v - RS) + ls_zero * (RS - v)

get_readout(xh) == [a \in Axes |-> readout_coord(xh[a])]

ReadoutInputs == [Axes -> (-RS)..(2 * RS - 1)]

InitReadout ==
  /\ pc = "readout_call"
  /\ x_hat \in ReadoutInputs
  /\ readout_xhat = <<>>
  /\ clone_cube = <<>> /\ boundary_threshold = 0 /\ K = 0
  /\ include_self = FALSE /\ padded_cube = <<>> /\ idx_map = <<>>
  /\ kgraph_raw = <<>> /\ csr_list = <<>> /\ alist = <<>>
  /\ A = <<>> /\ COO_feats = <<>> /\ diagonals = <<>> /\ CSR_feats = <<>>
  /\ H_in = <<>> /\ adj = <<>> /\ bN = <<>> /\ layer_vars = <<>>
  /\ is_last = FALSE /\ H_out = <<>>
  /\ ExtIdle

Readout ==
  /\ pc = "readout_call"
  /\ readout_xhat' = get_readout(x_hat)
  /\ pc' = "readout_ret"
  /\ UNCHANGED <<x_hat>>
  /\ UNCHANGED pbcVars
  /\ UNCHANGED cooVars
  /\ UNCHANGED layerVars
  /\ UNCHANGED extVars

NextReadout == Readout

SpecReadout == InitReadout /\ [][NextReadout]_vars

(***************************************************************************)
(* graph.py: boundary padder                                               *)
(***************************************************************************)
\* thresholds t / G with 0 < t / G < 0.5
Thresholds == {t \in 1..G : 2 * t < G}

Grid3 == [Axes -> 0..(G - 1)]

\* bound_x with strict comparisons (a particle exactly on the threshold is
\* not flagged)
bound_x_strict(particle, t) ==
  [a \in Axes |-> IF particle[a] > G - t THEN -1
                  ELSE IF particle[a] < t THEN 1 ELSE 0]

\* line 842: bound_x = np.where(x >= upper, -1, np.where(x <= lower, 1, 0))
bound_x(particle, t) ==
  [a \in Axes |-> IF particle[a] >= G - t THEN -1
                  ELSE IF particle[a] <= t THEN 1 ELSE 0]

\* line 843: np.count_nonzero(bound_x, axis=-1)
count_nonzero(bound) == Cardinality({a \in Axes : bound[a] # 0})

\* a relocation by two cube lengths
relocate_double(mask, bound, particle) ==
  [a \in Axes |-> mask[a] * bound[a] * 2 * G + particle[a]]

\* (mask * bound) + particle for one row of a 0/1 mask; bound is in cube
\* lengths, one cube length is G
relocate(mask, bound, particle) ==
  [a \in Axes |-> mask[a] * bound[a] * G + particle[a]]

face_outer(particle, bound) ==
  << relocate(<<1, 1, 1>>, bound, particle) >>

\* np.roll(row, shift): element j moves to (j + shift) mod 3
roll(row, shift) == [a \in Axes |-> row[((a - 1 - shift) % 3) + 1]]

\* list(bound).index(0), 0-based
zero_index(bound) ==
  (CHOOSE a \in Axes : bound[a] = 0 /\ \A a2 \in 1..(a - 1) : bound[a2] # 0) - 1

\* edge_outer without the roll of the mask to the unflagged axis
edge_outer_noroll(particle, bound) ==
  LET edge == <<<<0, 1, 1>>, <<0, 1, 0>>, <<0, 0, 1>>>>
  IN  [r \in 1..3 |-> relocate(edge[r], bound, particle)]

edge_outer(particle, bound) ==
  LET zero_idx == zero_index(bound)
      edge == <<roll(<<0, 1, 1>>, zero_idx), roll(<<0, 1, 0>>, zero_idx),
                roll(<<0, 0, 1>>, zero_idx)>>
  IN  [r \in 1..3 |-> relocate(edge[r], bound, particle)]

corner_outer(particle, bound) ==
  LET corner == <<<<1, 1, 1>>, <<1, 1, 0>>, <<1, 0, 1>>, <<1, 0, 0>>,
                  <<0, 1, 1>>, <<0, 1, 0>>, <<0, 0, 1>>>>
  IN  [r \in 1..7 |-> relocate(corner[r], bound, particle)]

get_outer(particle, bound, num_boundary) ==
  IF num_boundary = 1 THEN face_outer(particle, bound)
  ELSE IF num_boundary = 2 THEN edge_outer(particle, bound)
  ELSE corner_outer(particle, bound)

\* the loop of lines 846-854, entered at idx with the arrays built so far;
\* x0 is the input array, whose flags were taken before the loop
RECURSIVE pad_loop(_, _, _, _, _)
pad_loop(x0, t, idx, x, idx_list) ==
  IF idx = Len(x0) THEN [x |-> x, idx_list |-> idx_list]
  ELSE LET bound == bound_x(At(x0, idx), t)
           num_boundary == count_nonzero(bound)
       IN  IF num_boundary > 0
           THEN LET outer_particles == get_outer(At(x, idx), bound, num_boundary)
                IN  pad_loop(x0, t, idx + 1, x \o outer_particles,
                             idx_list \o Repeat(idx, Len(outer_particles)))
           ELSE pad_loop(x0, t, idx + 1, x, idx_list)

pad_cube_boundaries(x, t) == pad_loop(x, t, 0, x, <<>>)

\* cubes the padder is run on: the first particle anywhere on the grid, the
\* others on the plane family Positions
Positions ==
  {p \in Grid3 : p[2] \in {0, G \div 2} /\ p[3] = G \div 2}

PadCubes ==
  {c \in [1..PadN -> Grid3] : \A i \in 2..PadN : c[i] \in Positions}

InitPad ==
  /\ pc = "pad_call"
  /\ clone_cube \in PadCubes
  /\ boundary_threshold \in Thresholds
  /\ padded_cube = <<>> /\ idx_map = <<>>
  /\ K = 0 /\ include_self = FALSE
  /\ kgraph_raw = <<>> /\ csr_list = <<>> /\ alist = <<>>
  /\ x_hat = <<>> /\ readout_xhat = <<>>
  /\ A = <<>> /\ COO_feats = <<>> /\ diagonals = <<>> /\ CSR_feats = <<>>
  /\ H_in = <<>> /\ adj = <<>> /\ bN = <<>> /\ layer_vars = <<>>
  /\ is_last = FALSE /\ H_out = <<>>
  /\ ExtIdle

Pad ==
  /\ pc = "pad_call"
  /\ LET ret == pad_cube_boundaries(clone_cube, boundary_threshold)
     IN  /\ padded_cube' = ret.x
         /\ idx_map' = ret.idx_list
  /\ pc' = "pad_ret"
  /\ UNCHANGED <<clone_cube, boundary_threshold, K, include_self, kgraph_raw,
                 csr_list, alist>>
  /\ UNCHANGED readoutVars
  /\ UNCHANGED cooVars
  /\ UNCHANGED layerVars
  /\ UNCHANGED extVars

NextPad == Pad

SpecPad == InitPad /\ [][NextPad]_vars

\* the images appended for particle idx: the padded rows whose idx_map entry
\* is idx, in the order they were appended
ImagesOf(idx) ==
  {padded_cube[Len(clone_cube) + j] : j \in {j2 \in 1..Len(idx_map) : idx_map[j2] = idx}}

ImageCountOf(idx) ==
  Cardinality({j \in 1..Len(idx_map) : idx_map[j] = idx})

\* the non-empty 0/1 masks over the flagged axes of a flag vector
SubsetMasks(bound) ==
  {m \in [Axes -> {0, 1}] :
     /\ \E a \in Axes : m[a] = 1
     /\ \A a \in Axes : m[a] = 1 => bound[a] # 0}

RECURSIVE Pow2(_)
Pow2(n) == IF n = 0 THEN 1 ELSE 2 * Pow2(n - 1)

\* C2: a particle with n flagged axes gets exactly 2^n - 1 images, pairwise
\* distinct, namely particle + mask*flag for every non-empty subset mask of
\* its flagged axes (0 interior, 1 face, 3 edge, 7 corner).
C2_PaddingImages ==
  pc = "pad_ret" =>
    \A idx \in 0..(Len(clone_cube) - 1) :
      LET particle == At(clone_cube, idx)
          bound == bound_x(particle, boundary_threshold)
          n == count_nonzero(bound)
      IN  /\ ImageCountOf(idx) = Pow2(n) - 1
          /\ Cardinality(ImagesOf(idx)) = Pow2(n) - 1
          /\ ImagesOf(idx) =
               {relocate(m, bound, particle) : m \in SubsetMasks(bound)}

\* C2 witness: a padded cube holding a corner particle with its 7 images
C2_Witness ==
  /\ pc = "pad_ret"
  /\ \E idx \in 0..(Len(clone_cube) - 1) :
       /\ count_nonzero(bound_x(At(clone_cube, idx), boundary_threshold)) = 3
       /\ ImageCountOf(idx) = 7

(***************************************************************************)
(* graph.py: periodic K-NN graph builder                                   *)
(***************************************************************************)
\* squared Euclidean distance, in units of 1 / G^2
sqdist(p, q) ==
  (p[1] - q[1]) * (p[1] - q[1]) + (p[2] - q[2]) * (p[2] - q[2])
    + (p[3] - q[3]) * (p[3] - q[3])

\* sequences of k pairwise distinct elements of S
RECURSIVE InjSeqs(_, _)
InjSeqs(S, k) ==
  IF k = 0 THEN {<<>>}
  ELSE UNION {{Append(s, e) : e \in S \ Range(s)} : s \in InjSeqs(S, k - 1)}

\* sklearn kneighbors for query row i of x: the rows it may return.  With
\* include_self the query point is a candidate like any other; without it
\* the query point is taken out of the result.  The result is in order of
\* ascending distance; which of several equidistant points are returned,
\* and in which order, is left to the search structure.
kneighbors_row(x, i, k, inc_self) ==
  LET cand == IF inc_self THEN 0..(Len(x) - 1) ELSE (0..(Len(x) - 1)) \ {i}
      d(c) == sqdist(At(x, i), At(x, c))
      kth == CHOOSE v \in {d(c) : c \in cand} :
               /\ Cardinality({c \in cand : d(c) <= v}) >= k
               /\ Cardinality({c \in cand : d(c) < v}) < k
      near == {c \in cand : d(c) <= kth}
  IN  {s \in InjSeqs(near, k) :
         /\ \A j \in 1..(k - 1) : d(s[j]) <= d(s[j + 1])
         /\ \A c \in near \ Range(s) : d(s[k]) <= d(c)}

\* sklearn raises ValueError when more neighbors are asked for than there
\* are points to return
kneighbors_fails(x, k, inc_self) ==
  k > (IF inc_self THEN Len(x) ELSE Len(x) - 1)

\* the index arrays kneighbors may return for query rows i..n-1, flattened
RECURSIVE kneighbors_indices(_, _, _, _, _)
kneighbors_indices(x, n, k, inc_self, i) ==
  IF i = n THEN {<<>>}
  ELSE {r \o rest : r \in kneighbors_row(x, i, k, inc_self),
                    rest \in kneighbors_indices(x, n, k, inc_self, i + 1)}

\* kneighbors_graph(x, k, include_self)[:n]: CSR matrices with n rows of k
\* stored entries each, entries in the order kneighbors returned them
kneighbors_graph(x, n, k, inc_self) ==
  {[shape0 |-> n,
    indptr |-> [r \in 1..(n + 1) |-> (r - 1) * k],
    indices |-> ind] : ind \in kneighbors_indices(x, n, k, inc_self, 0)}

\* a remap loop that replaces only the first occurrence of a padding index
remap_first_occurrence(indices, imap, n) ==
  [k_idx \in 1..Len(indices) |->
     IF indices[k_idx] >= n /\ \A j \in 1..(k_idx - 1) : indices[j] # indices[k_idx]
     THEN At(imap, indices[k_idx] - n)
     ELSE indices[k_idx]]

\* the remap loop of lines 888-893 / 868-873: the mask is taken before the
\* loop, every masked position is overwritten with its idx_map entry
remap_indices(indices, imap, n) ==
  [k_idx \in 1..Len(indices) |->
     IF indices[k_idx] >= n THEN At(imap, indices[k_idx] - n)
     ELSE indices[k_idx]]

\* a remap that drops the entries pointing into the padding
get_pcube_csr_drop(raw, imap, n) ==
  LET inner(c) == c < n
  IN  [raw EXCEPT !.indices = SelectSeq(raw.indices, inner)]

get_pcube_csr(raw, imap, n) ==
  [raw EXCEPT !.indices = remap_indices(raw.indices, imap, n)]

\* a reshape that fills the result column by column
reshape_colmajor(flat, n, k) ==
  [r \in 1..n |-> [j \in 1..k |-> flat[(j - 1) * n + r]]]

\* kgraph.reshape(N, K)
reshape(flat, n, k) ==
  [r \in 1..n |-> [j \in 1..k |-> flat[(r - 1) * k + j]]]

get_pcube_adjacency_list(raw, imap, n, k) ==
  reshape(remap_indices(raw.indices, imap, n), n, k)

\* samples for the neighbor search: NP particles at pairwise distinct positions
Cubes ==
  {c \in [1..NP -> Positions] :
     \A i \in 1..NP : \A j \in 1..NP : i # j => c[i] # c[j]}

\* get_pbc_kneighbors_csr runs lines 911-916 once per sample of the
\* minibatch; an iteration reads only its own sample and appends one matrix
\* to csr_list.  The model runs the loop body on one sample.
InitPBC ==
  /\ pc = "pbc_pad"
  /\ csr_list = <<>>
  /\ clone_cube \in Cubes
  /\ boundary_threshold \in Thresholds
  /\ K \in 1..MaxK
  /\ include_self \in BOOLEAN
  /\ padded_cube = <<>> /\ idx_map = <<>> /\ kgraph_raw = <<>>
  /\ alist = <<>>
  /\ x_hat = <<>> /\ readout_xhat = <<>>
  /\ A = <<>> /\ COO_feats = <<>> /\ diagonals = <<>> /\ CSR_feats = <<>>
  /\ H_in = <<>> /\ adj = <<>> /\ bN = <<>> /\ layer_vars = <<>>
  /\ is_last = FALSE /\ H_out = <<>>
  /\ ExtIdle

\* line 912
PadCube ==
  /\ pc = "pbc_pad"
  /\ LET ret == pad_cube_boundaries(clone_cube, boundary_threshold)
     IN  /\ padded_cube' = ret.x
         /\ idx_map' = ret.idx_list
  /\ pc' = "pbc_search"
  /\ UNCHANGED <<clone_cube, boundary_threshold, K, include_self, kgraph_raw,
                 csr_list, alist>>
  /\ UNCHANGED readoutVars
  /\ UNCHANGED cooVars
  /\ UNCHANGED layerVars
  /\ UNCHANGED extVars

\* lines 915-916
GetPcubeCsr ==
  /\ pc = "pbc_search"
  /\ IF kneighbors_fails(padded_cube, K, include_self)
     THEN /\ pc' = "error"
          /\ UNCHANGED <<kgraph_raw, csr_list>>
     ELSE \E raw \in kneighbors_graph(padded_cube, Len(clone_cube), K, include_self) :
            /\ kgraph_raw' = raw.indices
            /\ csr_list' = Append(csr_list,
                                  get_pcube_csr(raw, idx_map, Len(clone_cube)))
            /\ pc' = "pbc_done"
  /\ UNCHANGED <<clone_cube, boundary_threshold, K, include_self, padded_cube,
                 idx_map, alist>>
  /\ UNCHANGED readoutVars
  /\ UNCHANGED cooVars
  /\ UNCHANGED layerVars
  /\ UNCHANGED extVars

\* get_pcube_adjacency_list on the padded cube (always include_self=True)
AdjacencyList ==
  /\ pc = "pbc_search"
  /\ IF kneighbors_fails(padded_cube, K, TRUE)
     THEN /\ pc' = "error"
          /\ UNCHANGED <<kgraph_raw, alist>>
     ELSE \E raw \in kneighbors_graph(padded_cube, Len(clone_cube), K, TRUE) :
            /\ kgraph_raw' = raw.indices
            /\ alist' = get_pcube_adjacency_list(raw, idx_map, Len(clone_cube), K)
            /\ pc' = "alist_ret"
  /\ UNCHANGED <<clone_cube, boundary_threshold, K, include_self, padded_cube,
                 idx_map, csr_list>>
  /\ UNCHANGED readoutVars
  /\ UNCHANGED cooVars
  /\ UNCHANGED layerVars
  /\ UNCHANGED extVars

\* get_kneighbor_list on the sample as it is (no padding, offset_idx=False)
GetKneighborList ==
  /\ pc = "pbc_pad"
  /\ IF kneighbors_fails(clone_cube, K, include_self)
     THEN /\ pc' = "error"
          /\ UNCHANGED csr_list
     ELSE \E kgraph \in kneighbors_graph(clone_cube, Len(clone_cube), K, include_self) :
            /\ csr_list' = Append(csr_list, kgraph)
            /\ pc' = "knn_done"
  /\ UNCHANGED <<clone_cube, boundary_threshold, K, include_self, padded_cube,
                 idx_map, kgraph_raw, alist>>
  /\ UNCHANGED readoutVars
  /\ UNCHANGED cooVars
  /\ UNCHANGED layerVars
  /\ UNCHANGED extVars

NextPBC == PadCube \/ GetPcubeCsr \/ AdjacencyList \/ GetKneighborList

SpecPBC == InitPBC /\ [][NextPBC]_vars

(***************************************************************************)
(* graph.py: batch COO assembler                                           *)
(***************************************************************************)
\* scipy expandptr: the row of every stored entry, in storage order
expandptr(csr) ==
  [e \in 1..Len(csr.indices) |->
     CHOOSE r \in 0..(csr.shape0 - 1) :
       At(csr.indptr, r) <= e - 1 /\ e - 1 < At(csr.indptr, r + 1)]

\* csr.tocoo() and csr.nonzero() (all stored data are 1): rows and columns of
\* the stored entries in storage order, duplicates kept
tocoo(csr) == [row |-> expandptr(csr), col |-> csr.indices]

add_scalar(arr, v) == [e \in 1..Len(arr) |-> arr[e] + v]

\* numpy  arr[k:q] = val : the slice is clipped to the array; val must have
\* the slice's length or length 1 (broadcast), otherwise ValueError
assign_slice(arr, k, q, val) ==
  LET lo == IF k < Len(arr) THEN k ELSE Len(arr)
      hi == IF q < Len(arr) THEN q ELSE Len(arr)
      n == IF hi > lo THEN hi - lo ELSE 0
  IN  IF Len(val) = n
      THEN [ok |-> TRUE,
            arr |-> [e \in 1..Len(arr) |->
                       IF lo < e /\ e <= hi THEN val[e - lo] ELSE arr[e]]]
      ELSE IF Len(val) = 1
      THEN [ok |-> TRUE,
            arr |-> [e \in 1..Len(arr) |->
                       IF lo < e /\ e <= hi THEN val[1] ELSE arr[e]]]
      ELSE [ok |-> FALSE, arr |-> arr]

\* an offset that forgets the particle count
coo_offset_bug(i, n) == i

\* lines 644-645 / 685-686: r + i*N, c + i*N
coo_offset(i, n) == i * n

\* no offset at all
csr_offset_none(i, n) == 0

\* line 605: A[i].indices + i*N
csr_offset(i, n) == i * n

\* np.where(r == c)[0]
where_equal(r, c) ==
  LET RECURSIVE scan(_)
      scan(e) == IF e > Len(r) THEN <<>>
                 ELSE IF r[e] = c[e] THEN <<e - 1>> \o scan(e + 1)
                 ELSE scan(e + 1)
  IN  scan(1)

\* the loop of to_coo_batch_ZA_diag (lines 639-656) from sample i on; the
\* loop of to_coo_batch (lines 681-693) is the same without dia
RECURSIVE coo_loop(_, _, _, _, _, _)
coo_loop(As, n, m, i, feats, dia) ==
  IF i = Len(As) THEN [ok |-> TRUE, COO_feats |-> feats, dia |-> dia]
  ELSE LET entries == tocoo(At(As, i))
           row == add_scalar(entries.row, coo_offset(i, n))
           col == add_scalar(entries.col, coo_offset(i, n))
           cube == [e \in 1..Len(row) |-> i]
           k == i * n * m
           q == (i + 1) * n * m
           a0 == assign_slice(feats[1], k, q, row)
           a1 == assign_slice(feats[2], k, q, col)
           a2 == assign_slice(feats[3], k, q, cube)
           d == where_equal(entries.row, entries.col)
       IN  IF ~(a0.ok /\ a1.ok /\ a2.ok)
           THEN [ok |-> FALSE, COO_feats |-> feats, dia |-> dia]
           ELSE coo_loop(As, n, m, i + 1, <<a0.arr, a1.arr, a2.arr>>,
                         dia \o add_scalar(d, i * Len(entries.row)))

to_coo_batch_ZA_diag(As) ==
  LET bsz == Len(As)
      n == At(As, 0).shape0
      m == Len(At(As, 0).indices) \div n
      zeros == Repeat(0, bsz * n * m)
  IN  coo_loop(As, n, m, 0, <<zeros, zeros, zeros>>, <<>>)

to_coo_batch(As) ==
  [ok |-> to_coo_batch_ZA_diag(As).ok,
   COO_feats |-> to_coo_batch_ZA_diag(As).COO_feats]

\* the loop of get_indices_from_list_CSR (lines 603-609)
RECURSIVE csr_loop(_, _, _, _, _)
csr_loop(As, n, m, i, feats) ==
  IF i = Len(As) THEN [ok |-> TRUE, CSR_feats |-> feats]
  ELSE LET idx == add_scalar(At(As, i).indices, csr_offset(i, n))
           a == assign_slice(feats, i * n * m, (i + 1) * n * m, idx)
       IN  IF ~a.ok THEN [ok |-> FALSE, CSR_feats |-> feats]
           ELSE csr_loop(As, n, m, i + 1, a.arr)

get_indices_from_list_CSR(As) ==
  LET bsz == Len(As)
      n == At(As, 0).shape0
      m == Len(At(As, 0).indices) \div n
  IN  csr_loop(As, n, m, 0, Repeat(0, bsz * n * m))

\* sequences of length k over S
RECURSIVE Seqs(_, _)
Seqs(S, k) ==
  IF k = 0 THEN {<<>>}
  ELSE {Append(s, e) : s \in Seqs(S, k - 1), e \in S}

\* adjacencies over NC particles with m stored entries in every row, as the
\* graph builders return them (a row may hold a column twice after the
\* remap of padding indices, and is in order of distance, not of column)
CooSamples(m) ==
  {[shape0 |-> NC,
    indptr |-> [r \in 1..(NC + 1) |-> (r - 1) * m],
    indices |-> ind] : ind \in Seqs(0..(NC - 1), NC * m)}

\* the shift-regular ones among them: row r holds columns r + shift (mod NC)
CooShiftSamples(m) ==
  {[shape0 |-> NC,
    indptr |-> [r \in 1..(NC + 1) |-> (r - 1) * m],
    indices |-> [e \in 1..(NC * m) |->
                   (((e - 1) \div m) + shift[((e - 1) % m) + 1]) % NC]] :
     shift \in Seqs(0..(NC - 1), m)}

\* batches handed to the assembler: one sample ranges over all adjacencies,
\* the others over the shift-regular ones; the samples of a batch need not
\* agree in their number of stored entries
CooBatches ==
  LET all == UNION {CooSamples(m) : m \in 1..MaxM}
      reg == UNION {CooShiftSamples(m) : m \in 1..MaxM}
  IN  UNION {UNION {{[i \in 1..bsz |-> IF i = p THEN g ELSE c[i]] :
                       g \in all, c \in [(1..bsz) \ {p} -> reg]} :
                    p \in 1..bsz} :
             bsz \in 1..MaxB}

InitCOO ==
  /\ pc = "coo_call"
  /\ A \in CooBatches
  /\ COO_feats = <<>> /\ diagonals = <<>> /\ CSR_feats = <<>>
  /\ x_hat = <<>> /\ readout_xhat = <<>>
  /\ clone_cube = <<>> /\ boundary_threshold = 0 /\ K = 0
  /\ include_self = FALSE /\ padded_cube = <<>> /\ idx_map = <<>>
  /\ kgraph_raw = <<>> /\ csr_list = <<>> /\ alist = <<>>
  /\ H_in = <<>> /\ adj = <<>> /\ bN = <<>> /\ layer_vars = <<>>
  /\ is_last = FALSE /\ H_out = <<>>
  /\ ExtIdle

ToCooBatch ==
  /\ pc = "coo_call"
  /\ LET ret == to_coo_batch(A)
     IN  IF ret.ok
         THEN /\ COO_feats' = ret.COO_feats
              /\ pc' = "coo_ret"
         ELSE /\ pc' = "error"
              /\ UNCHANGED COO_feats
  /\ UNCHANGED <<A, diagonals, CSR_feats>>
  /\ UNCHANGED readoutVars
  /\ UNCHANGED pbcVars
  /\ UNCHANGED layerVars
  /\ UNCHANGED extVars

ToCooBatchZADiag ==
  /\ pc = "coo_ret"
  /\ LET ret == to_coo_batch_ZA_diag(A)
     IN  IF ret.ok
         THEN /\ COO_feats' = ret.COO_feats
              /\ diagonals' = ret.dia
              /\ pc' = "diag_ret"
         ELSE /\ pc' = "error"
              /\ UNCHANGED <<COO_feats, diagonals>>
  /\ UNCHANGED <<A, CSR_feats>>
  /\ UNCHANGED readoutVars
  /\ UNCHANGED pbcVars
  /\ UNCHANGED layerVars
  /\ UNCHANGED extVars

\* confirm_CSR_to_COO_index_integrity(A, COO_feats)
ConfirmIntegrity ==
  /\ pc = "diag_ret"
  /\ LET ret == get_indices_from_list_CSR(A)
     IN  IF ~ret.ok
         THEN /\ pc' = "error"
              /\ UNCHANGED CSR_feats
         ELSE /\ CSR_feats' = ret.CSR_feats
              /\ pc' = IF ret.CSR_feats = COO_feats[2]
                       THEN "confirmed" ELSE "assertion_error"
  /\ UNCHANGED <<A, COO_feats, diagonals>>
  /\ UNCHANGED readoutVars
  /\ UNCHANGED pbcVars
  /\ UNCHANGED layerVars
  /\ UNCHANGED extVars

NextCOO == ToCooBatch \/ ToCooBatchZADiag \/ ConfirmIntegrity

SpecCOO == InitCOO /\ [][NextCOO]_vars

(***************************************************************************)
(* graph.py: 15-operator shift-invariant layer                             *)
(*                                                                         *)
(* Features have one channel (k_in = k_out = 1), so a weight matrix is one *)
(* number and matmul is a product.  Features are exact rationals <<n, d>>  *)
(* in lowest terms; weights and biases are integers.                       *)
(***************************************************************************)
RECURSIVE GCD(_, _)
GCD(x, y) == IF y = 0 THEN x ELSE GCD(y, x % y)

Abs(x) == IF x < 0 THEN -x ELSE x

Rat(n, d) ==
  LET g == GCD(Abs(n), d)
  IN  IF n = 0 THEN <<0, 1>> ELSE <<n \div g, d \div g>>

RZero == <<0, 1>>
RInt(v) == <<v, 1>>
RAdd(x, y) == Rat(x[1] * y[2] + y[1] * x[2], x[2] * y[2])
RScale(w, x) == Rat(w * x[1], x[2])
RDiv(x, k) == Rat(x[1], x[2] * k)

\* sum of h over the positions in J
RECURSIVE RSumOver(_, _)
RSumOver(J, h) ==
  IF J = {} THEN RZero
  ELSE LET j == CHOOSE j2 \in J : TRUE
       IN  RAdd(h[j], RSumOver(J \ {j}, h))

\* sum of h over the positions of lo..hi that are in J
RECURSIVE RSumRange(_, _, _, _)
RSumRange(J, h, lo, hi) ==
  IF lo > hi THEN RZero
  ELSE IF lo = hi THEN (IF lo \in J THEN h[lo] ELSE RZero)
  ELSE LET mid == (lo + hi) \div 2
       IN  RAdd(RSumRange(J, h, lo, mid), RSumRange(J, h, mid + 1, hi))

\* tf.matmul(h, W[i]) with a 1x1 weight
matmul(h, w) == [j \in 1..Len(h) |-> RScale(w, h[j])]

\* every index lies inside an array of the given number of rows
index_in_range(idx, size) ==
  \A j \in 1..Len(idx) : 0 <= idx[j] /\ idx[j] < size

\* tf.gather(h, idx) and tf.gather_nd(h, expand_dims(idx, 1)); the GPU kernel
\* stores 0 for an index outside h (the CPU kernel raises, see the callers)
gather(h, idx) ==
  [j \in 1..Len(idx) |->
     IF 0 <= idx[j] /\ idx[j] < Len(h) THEN At(h, idx[j]) ELSE RZero]

\* tf.unsorted_segment_sum
unsorted_segment_sum(h, pool_idx, num_segs) ==
  [seg \in 1..num_segs |->
     RSumRange({j \in 1..Len(pool_idx) : pool_idx[j] = seg - 1}, h,
               1, Len(pool_idx))]

\* tf.unsorted_segment_mean: an empty segment gives 0
unsorted_segment_mean(h, pool_idx, num_segs) ==
  [seg \in 1..num_segs |->
     LET members == {j \in 1..Len(pool_idx) : pool_idx[j] = seg - 1}
     IN  IF members = {} THEN RZero
         ELSE RDiv(RSumRange(members, h, 1, Len(pool_idx)),
                   Cardinality(members))]

\* a scatter that ignores idx and writes h[j] at position j
scatter_nd_front(idx, h, size) ==
  [e \in 1..size |-> IF e <= Len(h) THEN h[e] ELSE RZero]

\* tf.scatter_nd(expand_dims(idx, 1), h, shape): zeros, h[j] added at idx[j]
scatter_nd(idx, h, size) ==
  [e \in 1..size |-> RSumOver({j \in 1..Len(idx) : idx[j] = e - 1}, h)]

\* the local helpers of lines 64-106
pool(h, pool_idx, num_segs) == unsorted_segment_mean(h, pool_idx, num_segs)
broadcast(h, broadcast_idx) == gather(h, broadcast_idx)
broadcast_to_diag(h, broadcast_idx, size) == scatter_nd(broadcast_idx, h, size)

\* tf.add_n
RECURSIVE add_n(_)
add_n(hs) ==
  IF Len(hs) = 1 THEN hs[1]
  ELSE LET rest == add_n(Tail(hs))
       IN  [e \in 1..Len(hs[1]) |-> RAdd(hs[1][e], rest[e])]

\* lines 122-200; W[i] of the source is At(W, i)
shift_inv_15op_layer(H, ad, bn, lvars, last) ==
  LET bsz == bn[1]
      n == bn[2]
      W == lvars[1]
      B == lvars[2]
      out_shape == Len(H)
      H2 == gather(H, ad.tra)
      Hd == gather(H, ad.dia)
      Hr == pool(H, ad.col, bsz * n)
      Hc == pool(H, ad.row, bsz * n)
      Ha == pool(H, ad.all, bsz)
      Ha_broad == broadcast(matmul(Ha, At(W, 10)), ad.dal)
      Hp == pool(Hd, ad.dal, bsz)
      Hp_broad == broadcast(matmul(Hp, At(W, 12)), ad.dal)
      H_all ==
        << matmul(H, At(W, 0)),
           matmul(H2, At(W, 1)),
           broadcast_to_diag(matmul(Hd, At(W, 2)), ad.dia, out_shape),
           broadcast(matmul(Hr, At(W, 3)), ad.col),
           broadcast(matmul(Hr, At(W, 4)), ad.row),
           broadcast_to_diag(matmul(Hr, At(W, 5)), ad.dia, out_shape),
           broadcast(matmul(Hc, At(W, 6)), ad.row),
           broadcast(matmul(Hc, At(W, 7)), ad.col),
           broadcast_to_diag(matmul(Hc, At(W, 8)), ad.dia, out_shape),
           broadcast(matmul(Ha, At(W, 9)), ad.all),
           broadcast_to_diag(Ha_broad, ad.dia, out_shape),
           broadcast(matmul(Hp, At(W, 11)), ad.all),
           broadcast_to_diag(Hp_broad, ad.dia, out_shape),
           broadcast(matmul(Hd, At(W, 13)), ad.col),
           broadcast(matmul(Hd, At(W, 14)), ad.row) >>
      B_diag == broadcast_to_diag([p \in 1..(bsz * n) |-> RInt(At(B, 0))],
                                  ad.dia, out_shape)
      B_all == RInt(At(B, 1))
      Hsum == add_n(H_all)
      Hfin == [e \in 1..out_shape |-> RAdd(RAdd(Hsum[e], B_diag[e]), B_all)]
  IN  IF last
      THEN reshape(pool(Hfin, ad.row, bsz * n), bsz, n)
      ELSE Hfin

\* The outcomes of a call of shift_inv_15op_layer.  The pooled arrays Ha and
\* Hp of lines 165-177 have b rows and are indexed with adj["dal"]: for an
\* index outside them the CPU kernels of tf.gather and
\* tf.unsorted_segment_mean raise, the GPU kernels store 0 and drop the row.
layer15_outcomes(H, ad, bn, lvars, last) ==
  {[pc |-> "layer_ret", out |-> shift_inv_15op_layer(H, ad, bn, lvars, last)]}
    \cup (IF index_in_range(ad.dal, bn[1]) THEN {}
          ELSE {[pc |-> "error", out |-> <<>>]})

\* shift_inv_conv, lines 367-391
shift_inv_conv(h, pool_idx, num_segs, bcast) ==
  LET pooled_conv == unsorted_segment_mean(h, pool_idx, num_segs)
  IN  IF bcast THEN gather(pooled_conv, pool_idx) ELSE pooled_conv

\* shift_inv_layer, lines 414-456; weights = (W1, W2, W3, W4), one bias B
shift_inv_layer(H, COO, bn, lvars, last) ==
  LET bsz == bn[1]
      n == bn[2]
      row_idx == At(COO, 0)
      col_idx == At(COO, 1)
      cube_idx == At(COO, 2)
      weights == lvars[1]
      B == lvars[2]
      H1 == matmul(H, weights[1])
      H2 == matmul(shift_inv_conv(H, col_idx, bsz * n, TRUE), weights[2])
      H3 == matmul(shift_inv_conv(H, row_idx, bsz * n, TRUE), weights[3])
      H4 == matmul(shift_inv_conv(H, cube_idx, bsz * n, TRUE), weights[4])
      Hsum == add_n(<<H1, H2, H3, H4>>)
      Hfin == [e \in 1..Len(H) |-> RAdd(Hsum[e], RInt(B))]
  IN  IF last
      THEN reshape(shift_inv_conv(Hfin, row_idx, bsz * n, FALSE), bsz, n)
      ELSE Hfin

\* Index bundles as the docstring (lines 42-55) describes them: symmetric
\* adjacencies with every self-loop, edges in row-major order, all indices
\* shifted across the batch.
UndirectedPairs == {pr \in (0..(LN - 1)) \X (0..(LN - 1)) : pr[1] < pr[2]}

\* the edges (r, c) of one sample, row-major
RECURSIVE SampleEdges(_, _, _)
SampleEdges(E, r, c) ==
  IF r = LN THEN <<>>
  ELSE IF c = LN THEN SampleEdges(E, r + 1, 0)
  ELSE IF r = c \/ <<r, c>> \in E \/ <<c, r>> \in E
       THEN <<<<r, c>>>> \o SampleEdges(E, r, c + 1)
       ELSE SampleEdges(E, r, c + 1)

\* the edges of a batch as triples (row, col, cube), indices shifted
RECURSIVE BatchEdges(_, _)
BatchEdges(Es, i) ==
  IF i = Len(Es) THEN <<>>
  ELSE LET se == SampleEdges(At(Es, i), 0, 0)
       IN  [e \in 1..Len(se) |-> <<se[e][1] + i * LN, se[e][2] + i * LN, i>>]
             \o BatchEdges(Es, i + 1)

AdjOf(Es) ==
  LET edges == BatchEdges(Es, 0)
      S == Len(edges)
      pos(r, c) == CHOOSE e \in 1..S : edges[e][1] = r /\ edges[e][2] = c
  IN  [row |-> [e \in 1..S |-> edges[e][1]],
       col |-> [e \in 1..S |-> edges[e][2]],
       all |-> [e \in 1..S |-> edges[e][3]],
       tra |-> [e \in 1..S |-> pos(edges[e][2], edges[e][1]) - 1],
       dia |-> [p \in 1..(Len(Es) * LN) |-> pos(p - 1, p - 1) - 1],
       dal |-> [p \in 1..(Len(Es) * LN) |-> (p - 1) \div LN]]

LayerAdjacencies ==
  UNION {{AdjOf(Es) : Es \in [1..bsz -> SUBSET UndirectedPairs]} : bsz \in 1..LB}

\* input features: a single non-zero edge, or all edges different
LayerFeatures(S) ==
  {[e \in 1..S |-> RInt(IF e = hot THEN 1 ELSE 0)] : hot \in 1..S}
    \cup {[e \in 1..S |-> RInt(e)]}

\* weights: one operator switched on, or all operators with different weights
LayerWeights ==
  {[i \in 1..15 |-> IF i = hot THEN 1 ELSE 0] : hot \in 1..15}
    \cup {[i \in 1..15 |-> i]}

LayerBiases == {<<0, 0>>, <<2, 3>>}

\* (W, B) of shift_inv_15op_layer
LayerVars15 == {<<W, B>> : W \in LayerWeights, B \in LayerBiases}

\* (weights, B) of shift_inv_layer: one weight switched on, or all different
LayerVars4 ==
  {<<W, B>> : W \in {[i \in 1..4 |-> IF i = hot THEN 1 ELSE 0] : hot \in 1..4}
                      \cup {[i \in 1..4 |-> i + 1]},
              B \in {0, 3}}

InitLayer ==
  /\ pc = "layer_call"
  /\ adj \in LayerAdjacencies
  /\ bN = <<Len(adj.dia) \div LN, LN>>
  /\ H_in \in LayerFeatures(Len(adj.row))
  /\ \/ layer_vars \in LayerVars15
     \/ layer_vars \in LayerVars4
  /\ is_last \in BOOLEAN
  /\ H_out = <<>>
  /\ x_hat = <<>> /\ readout_xhat = <<>>
  /\ A = <<>> /\ COO_feats = <<>> /\ diagonals = <<>> /\ CSR_feats = <<>>
  /\ clone_cube = <<>> /\ boundary_threshold = 0 /\ K = 0
  /\ include_self = FALSE /\ padded_cube = <<>> /\ idx_map = <<>>
  /\ kgraph_raw = <<>> /\ csr_list = <<>> /\ alist = <<>>
  /\ ExtIdle

Layer ==
  /\ pc = "layer_call"
  /\ Len(layer_vars[1]) = 15
  /\ \E res \in layer15_outcomes(H_in, adj, bN, layer_vars, is_last) :
       /\ H_out' = res.out
       /\ pc' = res.pc
  /\ UNCHANGED <<H_in, adj, bN, layer_vars, is_last>>
  /\ UNCHANGED readoutVars
  /\ UNCHANGED pbcVars
  /\ UNCHANGED cooVars
  /\ UNCHANGED extVars

\* shift_inv_layer on the same graph: COO_feats = (row, col, cube) indices
ShiftInvLayer ==
  /\ pc = "layer_call"
  /\ Len(layer_vars[1]) = 4
  /\ H_out' = shift_inv_layer(H_in, <<adj.row, adj.col, adj.all>>, bN,
                              layer_vars, is_last)
  /\ pc' = "shift_inv_layer_ret"
  /\ UNCHANGED <<H_in, adj, bN, layer_vars, is_last>>
  /\ UNCHANGED readoutVars
  /\ UNCHANGED pbcVars
  /\ UNCHANGED cooVars
  /\ UNCHANGED extVars

NextLayer == Layer \/ ShiftInvLayer

SpecLayer == InitLayer /\ [][NextLayer]_vars

\* The same two layers run with every weight and bias switched on at once:
\* the inputs under which relabelled runs are compared.
InitEquiv ==
  /\ pc = "layer_call"
  /\ adj \in LayerAdjacencies
  /\ bN = <<Len(adj.dia) \div LN, LN>>
  /\ H_in \in LayerFeatures(Len(adj.row))
  /\ \/ layer_vars = <<[i \in 1..15 |-> i], <<2, 3>>>>
     \/ layer_vars = <<[i \in 1..4 |-> i + 1], 3>>
  /\ is_last \in BOOLEAN
  /\ H_out = <<>>
  /\ x_hat = <<>> /\ readout_xhat = <<>>
  /\ A = <<>> /\ COO_feats = <<>> /\ diagonals = <<>> /\ CSR_feats = <<>>
  /\ clone_cube = <<>> /\ boundary_threshold = 0 /\ K = 0
  /\ include_self = FALSE /\ padded_cube = <<>> /\ idx_map = <<>>
  /\ kgraph_raw = <<>> /\ csr_list = <<>> /\ alist = <<>>
  /\ ExtIdle

SpecEquiv == InitEquiv /\ [][NextLayer]_vars


(***************************************************************************)
(* graph.py: input edge features                                           *)
(*                                                                         *)
(* A position or displacement is a triple of integers (fixed point, as the *)
(* particle coordinates of the padder).                                    *)
(***************************************************************************)
VZero == <<0, 0, 0>>
VAdd(x, y) == [a \in Axes |-> x[a] + y[a]]

\* a difference that forgets the subtrahend
vsub_keep(x, y) == x

\* edges - tf.expand_dims(init_pos, axis=2), one row
vsub(x, y) == [a \in Axes |-> x[a] - y[a]]

RECURSIVE VSumOver(_, _)
VSumOver(J, h) ==
  IF J = {} THEN VZero
  ELSE LET j == CHOOSE j2 \in J : TRUE
       IN  VAdd(h[j], VSumOver(J \ {j}, h))

\* the local _broadcast_to_diag of lines 315-324 (tf.scatter_nd on rows)
za_broadcast_to_diag(h, broadcast_idx, size) ==
  [e \in 1..size |-> VSumOver({j \in 1..Len(broadcast_idx) :
                                 broadcast_idx[j] = e - 1}, h)]

\* lines 326-343.  tf.reshape fails unless cols has b*N*M entries, and
\* tf.scatter_nd unless diag has one entry per row of the displacements and
\* every entry is a valid edge position.
get_input_features_shift_inv_ZA(pos, za, c, dg, dm) ==
  LET b == dm[1]
      n == dm[2]
      m == dm[3]
      flattened_pos == Concat(pos)
      cols == At(c, 1)
      gathered == gather(flattened_pos, cols)
      edges == [e \in 1..(b * n * m) |->
                  vsub(gathered[e], flattened_pos[((e - 1) \div m) + 1])]
      flattened_za_disp == Concat(za)
      out_size == b * n * m
      diagonal_za == za_broadcast_to_diag(flattened_za_disp, dg, out_size)
  IN  IF Len(cols) # b * n * m
         \/ Len(dg) # Len(flattened_za_disp)
         \/ \E j \in 1..Len(dg) : dg[j] >= out_size
      THEN [ok |-> FALSE, features_out |-> <<>>]
      ELSE [ok |-> TRUE,
            features_out |-> [e \in 1..out_size |->
                                VAdd(edges[e], diagonal_za[e])]]

\* lines 354-364; X_in is (b, N, 6): location and velocity of every particle
get_input_features_shift_inv(X_in, c, dm) ==
  LET b == dm[1]
      n == dm[2]
      m == dm[3]
      X == Concat(X_in)
      loc == [q \in 1..Len(X) |-> SubSeq(X[q], 1, 3)]
      vel == [q \in 1..Len(X) |-> SubSeq(X[q], 4, 6)]
      cols == At(c, 1)
      gathered == gather(loc, cols)
  IN  IF Len(cols) # b * n * m
      THEN [ok |-> FALSE, edges |-> <<>>, nodes |-> <<>>]
      ELSE [ok |-> TRUE,
            edges |-> [e \in 1..(b * n * m) |->
                         vsub(gathered[e], loc[((e - 1) \div m) + 1])],
            nodes |-> vel]

\* Adjacencies of a fixed-M search with include_self=True: row r starts with
\* r itself (distance 0); the other entries are any particles, and after the
\* remap of padding indices may repeat one.
FeatSamples(m) ==
  {[shape0 |-> FN,
    indptr |-> [r \in 1..(FN + 1) |-> (r - 1) * m],
    indices |-> ind] :
     ind \in {i2 \in Seqs(0..(FN - 1), FN * m) :
                \A r \in 0..(FN - 1) : i2[r * m + 1] = r}}

\* row r = r, r + 1, ... (mod FN)
FeatRegular(m) ==
  [shape0 |-> FN,
   indptr |-> [r \in 1..(FN + 1) |-> (r - 1) * m],
   indices |-> [e \in 1..(FN * m) |-> (((e - 1) \div m) + ((e - 1) % m)) % FN]]

FeatPoints == {<<0, 1, 4>>, <<3, 0, 2>>}
FeatDisplacements == {VZero, <<1, -2, 3>>}

\* One sample of the batch ranges over all adjacencies, positions and
\* displacements; the others are fixed.
InitFeat ==
  /\ pc = "feat_call"
  /\ \E bsz \in 1..FB : \E m \in 1..FM : \E g \in 1..bsz :
       \E a \in FeatSamples(m) :
         LET ret == to_coo_batch_ZA_diag(
                      [i \in 1..bsz |-> IF i = g THEN a ELSE FeatRegular(m)])
         IN  /\ dims = <<bsz, FN, m>>
             /\ coo = ret.COO_feats
             /\ diag = ret.dia
             /\ \E xs \in [1..FN -> FeatPoints] :
                  init_pos = [i \in 1..bsz |->
                                IF i = g THEN xs
                                ELSE [q \in 1..FN |-> <<q, 2 * q + 1, 3>>]]
             /\ \E zs \in [1..FN -> FeatDisplacements] :
                  ZA_displacement = [i \in 1..bsz |->
                                       IF i = g THEN zs
                                       ELSE [q \in 1..FN |-> <<1, q, 0>>]]
  /\ features_out = <<>> /\ nodes = <<>>
  /\ CoreIdle
  /\ NetIdle
  /\ CubeIdle
  /\ RotIdle
  /\ LossIdle

GetInputFeaturesZA ==
  /\ pc = "feat_call"
  /\ LET ret == get_input_features_shift_inv_ZA(init_pos, ZA_displacement,
                                                coo, diag, dims)
     IN  IF ret.ok
         THEN /\ features_out' = ret.features_out
              /\ pc' = "feat_ret"
         ELSE /\ pc' = "error"
              /\ UNCHANGED features_out
  /\ UNCHANGED <<init_pos, ZA_displacement, coo, diag, dims, nodes>>
  /\ UNCHANGED <<cubeVars, netVars, readoutVars, pbcVars, cooVars, layerVars, rotVars, lossVars>>

\* X_in carries init_pos as locations and ZA_displacement as velocities
GetInputFeatures ==
  /\ pc = "feat_call"
  /\ LET X_in == [i \in 1..Len(init_pos) |->
                    [q \in 1..Len(init_pos[i]) |->
                       init_pos[i][q] \o ZA_displacement[i][q]]]
         ret == get_input_features_shift_inv(X_in, coo, dims)
     IN  IF ret.ok
         THEN /\ features_out' = ret.edges
              /\ nodes' = ret.nodes
              /\ pc' = "feat_noza_ret"
         ELSE /\ pc' = "error"
              /\ UNCHANGED <<features_out, nodes>>
  /\ UNCHANGED <<init_pos, ZA_displacement, coo, diag, dims>>
  /\ UNCHANGED <<cubeVars, netVars, readoutVars, pbcVars, cooVars, layerVars, rotVars, lossVars>>

NextFeat == GetInputFeaturesZA \/ GetInputFeatures

SpecFeat == InitFeat /\ [][NextFeat]_vars

(***************************************************************************)
(* rot_inv.py: third-order adjacency, segment ids                          *)
(*                                                                         *)
(* A sparse adjacency is a CSR record with its stored values:              *)
(* [shape0, indptr, indices, data].                                        *)
(***************************************************************************)
\* the elements of arr at the positions where keep holds, in order
RECURSIVE compress(_, _, _)
compress(arr, keep, e) ==
  IF e > Len(arr) THEN <<>>
  ELSE IF keep[e] THEN <<arr[e]>> \o compress(arr, keep, e + 1)
  ELSE compress(arr, keep, e + 1)

\* A_sparse.setdiag(0) on a matrix that stores every diagonal entry once:
\* the stored diagonal values are overwritten in place
setdiag(a) ==
  LET rows == AsArray(expandptr(a), Len(a.indices))
  IN  [a EXCEPT !.data =
         AsArray([e \in 1..Len(a.indices) |->
                    IF rows[e] = a.indices[e] THEN 0 ELSE a.data[e]],
                 Len(a.indices))]

\* A_sparse.nonzero(): rows and columns of the stored entries whose value
\* is not 0, in storage order
nonzero(a) ==
  LET keep == [e \in 1..Len(a.indices) |-> a.data[e] # 0]
  IN  [row |-> compress(AsArray(expandptr(a), Len(a.indices)), keep, 1),
       col |-> compress(a.indices, keep, 1)]

\* Python  arr[lo:hi]  for 0 <= lo
slice(arr, lo, hi) ==
  LET l == IF lo < Len(arr) THEN lo ELSE Len(arr)
      h == IF hi < Len(arr) THEN hi ELSE Len(arr)
  IN  IF h > l THEN SubSeq(arr, l + 1, h) ELSE <<>>

\* a delete that removes nothing
delete_none(arr, v) == arr

\* np.delete(arr, np.where(arr == v))
delete_equal(arr, v) == compress(arr, [e \in 1..Len(arr) |-> arr[e] # v], 1)

\* lines 262-275: per non-zero entry, its row and column repeated for every
\* depth and the other neighbors of its row as depths
cube_indices(a1, rows, cols, m_eff, reps) ==
  [A |-> a1,
   r |-> Concat([i \in 1..Len(rows) |-> Repeat(rows[i], reps)]),
   c |-> Concat([i \in 1..Len(rows) |-> Repeat(cols[i], reps)]),
   d |-> Concat([i \in 1..Len(rows) |->
                   delete_equal(slice(cols, (rows[i] + 1) * m_eff - m_eff,
                                      (rows[i] + 1) * m_eff),
                                cols[i])])]

\* lines 259-261 on the non-zero entries nz of the adjacency a1
cube_entries(a1, nz, m_eff) ==
  cube_indices(a1, nz.row, nz.col, m_eff,
               IF m_eff - 1 > 0 THEN m_eff - 1 ELSE 0)

\* lines 258-260 on the adjacency a1 with its diagonal set to 0
cube_nonzero(a1, m) == cube_entries(a1, nonzero(a1), m - 1)

\* _make_cube_adjacency_sparse, lines 257-275; A is the argument after the call
make_cube_adjacency_sparse(A_sparse, m) == cube_nonzero(setdiag(A_sparse), m)

\* _combine_segment_idx: np.unique(pairs, axis=0, return_inverse=True)[1],
\* the rank of each pair among the sorted distinct pairs
combine_segment_idx(idx_1, idx_2) ==
  LET pairs == {<<idx_1[e], idx_2[e]>> : e \in 1..Len(idx_1)}
      less(x, y) == x[1] < y[1] \/ (x[1] = y[1] /\ x[2] < y[2])
  IN  AsArray([e \in 1..Len(idx_1) |->
                 Cardinality({x \in pairs : less(x, <<idx_1[e], idx_2[e]>>)})],
              Len(idx_1))

Max(arr) == CHOOSE v \in Range(arr) : \A w \in Range(arr) : w <= v

\* an offset loop that adds only the count-independent 1
offset_one(prev) == 1

\* line 219: np.max(out[i - 1][j]) + 1
offset_of(prev) == Max(prev) + 1

\* the offset loop of lines 217-219 from sample i on
RECURSIVE offset_loop(_, _)
offset_loop(out, i) ==
  IF i >= Len(out) THEN out
  ELSE offset_loop(
         [out EXCEPT ![i + 1] =
            AsArray([j \in 1..7 |->
                       AsArray(add_scalar(out[i + 1][j], offset_of(out[i][j])),
                               Len(out[i + 1][j]))], 7)],
         i + 1)

\* the seven id arrays with the row-depth and col-depth pairs exchanged
segment_ids_swapped(r_idx, c_idx, d_idx) ==
  IF Len(c_idx) # Len(r_idx) \/ Len(d_idx) # Len(r_idx)
  THEN <<>>
  ELSE << r_idx, c_idx, d_idx,
          combine_segment_idx(r_idx, c_idx),
          combine_segment_idx(c_idx, d_idx),
          combine_segment_idx(r_idx, d_idx),
          Repeat(0, Len(r_idx)) >>

\* lines 205-212: the seven id arrays of one sample
segment_ids(r_idx, c_idx, d_idx) ==
  IF Len(c_idx) # Len(r_idx) \/ Len(d_idx) # Len(r_idx)
  THEN <<>>
  ELSE << r_idx, c_idx, d_idx,
          combine_segment_idx(r_idx, c_idx),
          combine_segment_idx(r_idx, d_idx),
          combine_segment_idx(c_idx, d_idx),
          Repeat(0, Len(r_idx)) >>

\* lines 214-221.  np.array(out) is a (b, 7, e) array only if the id arrays
\* of all samples have one length e > 0.
batch_ids(cubes, ids) ==
  LET ok == \A i \in 1..Len(cubes) :
              /\ ids[i] # <<>>
              /\ Len(ids[i][1]) > 0
              /\ Len(ids[i][1]) = Len(ids[1][1])
  IN  [ok |-> ok,
       batch |-> AsArray([i \in 1..Len(cubes) |-> cubes[i].A], Len(cubes)),
       out |-> IF ok THEN offset_loop(ids, 1) ELSE <<>>]

\* the loop of lines 196-212 over the cubes of the batch
batch_cubes(cubes) ==
  batch_ids(cubes,
            AsArray([i \in 1..Len(cubes) |->
                       segment_ids(cubes[i].r, cubes[i].c, cubes[i].d)],
                    Len(cubes)))

\* pre_process_adjacency_batch with sparse=True, lines 192-221; batch is the
\* list of matrices after the call
pre_process_adjacency_batch(batch, m) ==
  batch_cubes(AsArray([i \in 1..Len(batch) |->
                         make_cube_adjacency_sparse(batch[i], m)], Len(batch)))

\* get_segment_idx_2D, lines 290-304: (batch, row) and (batch, col) pairs of
\* the non-zero entries; batch is the list of matrices after the call
get_segment_idx_2D(batch_A_sparse) ==
  LET as == AsArray([i \in 1..Len(batch_A_sparse) |->
                       setdiag(batch_A_sparse[i])], Len(batch_A_sparse))
      rows == Concat([i \in 1..Len(as) |->
                        LET r == nonzero(as[i]).row
                        IN  [e \in 1..Len(r) |-> <<i - 1, r[e]>>]])
      cols == Concat([i \in 1..Len(as) |->
                        LET c == nonzero(as[i]).col
                        IN  [e \in 1..Len(c) |-> <<i - 1, c[e]>>]])
  IN  [batch |-> as, idx |-> <<rows, cols>>]

(***************************************************************************)
(* rot_inv.py: layer variables and the rotation-invariant layer            *)
(***************************************************************************)
SEGNAMES_3D == <<"CD", "RD", "RC", "D", "C", "R", "A">>

\* a map in which row-col pooling takes the weight of row pooling
WMAP_3D_untied ==
  [CD |-> 1, RD |-> 2, RC |-> 4, D |-> 3, C |-> 3, R |-> 4, A |-> 5, Z |-> 6]

WMAP_3D ==
  [CD |-> 1, RD |-> 2, RC |-> 2, D |-> 3, C |-> 3, R |-> 4, A |-> 5, Z |-> 6]

\* the names of the variables of a scope: one per (layer, weight index) and
\* one bias per layer
MULTI_WEIGHT_TAG(layer_idx, w_idx) == <<"W", layer_idx, w_idx>>
BIAS_TAG(layer_idx) == <<"B", layer_idx, 0>>

\* init_RotInv_params, lines 43-54: the variables created in the scope, with
\* the values draw gives them
init_RotInv_params(channels, draw) ==
  LET kdims == 0..(Len(channels) - 2)
      w_idxs == {WMAP_3D[p] : p \in DOMAIN WMAP_3D}
      tags == {BIAS_TAG(layer_idx) : layer_idx \in kdims}
              \cup {MULTI_WEIGHT_TAG(layer_idx, w_idx) :
                      layer_idx \in kdims, w_idx \in w_idxs}
  IN  [t \in tags |-> draw[t]]

get_scoped_RotInv_weight(scope, layer_idx, w_idx) ==
  scope[MULTI_WEIGHT_TAG(layer_idx, w_idx)]

get_scoped_bias(scope, layer_idx) == scope[BIAS_TAG(layer_idx)]

\* a pooling that broadcasts back to the entries whatever the flag says
pool_RotInv_broadcast(X, idx, bcast) ==
  LET flat_idx == Concat(idx)
      num_segs == Max(flat_idx) + 1
      X_pooled == AsArray(unsorted_segment_mean(Concat(X), flat_idx, num_segs),
                          num_segs)
  IN  [ok |-> TRUE,
       out |-> AsArray([i \in 1..Len(X) |->
                          AsArray(gather(X_pooled, idx[i]), Len(idx[i]))],
                       Len(X))]

\* pool_RotInv, lines 91-98, on X of shape (b, e, 1) and idx of shape (b, e).
\* Without broadcast the pooled (num_segs, 1) array is reshaped to (b, -1, 1),
\* which fails unless b divides num_segs.
pool_RotInv(X, idx, bcast) ==
  LET b == Len(X)
      flat_X == Concat(X)
      flat_idx == Concat(idx)
      num_segs == Max(flat_idx) + 1
      X_pooled == AsArray(unsorted_segment_mean(flat_X, flat_idx, num_segs),
                          num_segs)
      per == num_segs \div b
  IN  IF Len(flat_X) # Len(flat_idx) \/ Len(X_pooled) # num_segs
      THEN [ok |-> FALSE, out |-> <<>>]
      ELSE IF bcast
      THEN [ok |-> TRUE,
            out |-> AsArray([i \in 1..b |->
                               AsArray(gather(X_pooled, idx[i]), Len(idx[i]))],
                            b)]
      ELSE [ok |-> num_segs % b = 0,
            out |-> IF num_segs % b = 0
                    THEN AsArray([i \in 1..b |->
                                    SubSeq(X_pooled, (i - 1) * per + 1, i * per)],
                                 b)
                    ELSE <<>>]

\* line 129-130 for SEGNAMES_3D[i]: the pooled input times its weight
rotinv_term(H_feat, segID_3D, scope, layer_idx, i) ==
  LET pool_op == SEGNAMES_3D[i]
      W == get_scoped_RotInv_weight(scope, layer_idx, WMAP_3D[pool_op])
      pooled_H == pool_RotInv(H_feat,
                              AsArray([s \in 1..Len(segID_3D) |->
                                         segID_3D[s][i]], Len(segID_3D)),
                              TRUE).out
  IN  IF Len(pooled_H) # Len(H_feat) THEN <<>>
      ELSE AsArray([s \in 1..Len(H_feat) |->
                      AsArray(matmul(pooled_H[s], W), Len(H_feat[s]))],
                   Len(H_feat))

\* the loop of lines 128-130 at one position: h plus every term
rotinv_loop(h, terms, s, t) ==
  RAdd(h, RSumRange(1..Len(terms), [i \in 1..Len(terms) |-> terms[i][s][t]],
                    1, Len(terms)))

\* RotInv_layer, lines 125-138, with one input and one output channel
RotInv_layer(H_feat, segID_3D, scope, layer_idx, last) ==
  LET Z == get_scoped_RotInv_weight(scope, layer_idx, WMAP_3D["Z"])
      terms == AsArray([i \in 1..Len(SEGNAMES_3D) |->
                          rotinv_term(H_feat, segID_3D, scope, layer_idx, i)],
                       Len(SEGNAMES_3D))
      B == get_scoped_bias(scope, layer_idx)
      H_biased ==
        AsArray([s \in 1..Len(H_feat) |->
                   AsArray([t \in 1..Len(H_feat[s]) |->
                              RAdd(rotinv_loop(RScale(Z, H_feat[s][t]),
                                               terms, s, t),
                                   RInt(B))], Len(H_feat[s]))],
                Len(H_feat))
  IN  IF \E i \in 1..Len(terms) : terms[i] = <<>>
      THEN [ok |-> FALSE, out |-> <<>>]
      ELSE IF Len(H_biased) # Len(H_feat)
      THEN [ok |-> FALSE, out |-> <<>>]
      ELSE IF last
      THEN pool_RotInv(H_biased,
                       AsArray([s \in 1..Len(segID_3D) |-> segID_3D[s][4]],
                               Len(segID_3D)), FALSE)
      ELSE [ok |-> TRUE, out |-> H_biased]

\* get_final_position, lines 386-390, on weights = tf.reshape(layer_output,
\* [b, N, M - 1, 1]) as in toy_example; positions are integers, the returned
\* coordinates rationals.  Both reshapes need b * N * (m - 1) elements.
get_final_position(X_pos, idx_2D, layer_out, m) ==
  LET b == Len(X_pos)
      n == Len(X_pos[1])
      rows == idx_2D[1]
      cols == idx_2D[2]
      weights == Concat(layer_out)
      gather_nd(pr) == X_pos[pr[1] + 1][pr[2] + 1]
      ok == /\ Len(rows) = b * n * (m - 1)
            /\ Len(weights) = b * n * (m - 1)
            /\ \A j \in 1..Len(rows) :
                 /\ rows[j][1] < b /\ rows[j][2] < n
                 /\ cols[j][1] < b /\ cols[j][2] < n
      dX == AsArray([j \in 1..Len(rows) |->
                       vsub(gather_nd(cols[j]), gather_nd(rows[j]))],
                    Len(rows))
      at(i, p, k) == ((i - 1) * n + (p - 1)) * (m - 1) + k
  IN  [ok |-> ok,
       out |-> IF ~ok THEN <<>>
               ELSE AsArray([i \in 1..b |->
                      AsArray([p \in 1..n |->
                        AsArray([a \in Axes |->
                           RAdd(RInt(X_pos[i][p][a]),
                                RSumOver(1..(m - 1),
                                         [k \in 1..(m - 1) |->
                                            RScale(dX[at(i, p, k)][a],
                                                   weights[at(i, p, k)])]))],
                          3)],
                        n)], b)]

RECURSIVE SortAsc(_)
SortAsc(S) ==
  IF S = {} THEN <<>>
  ELSE LET mn == CHOOSE x \in S : \A y \in S : x <= y
       IN  <<mn>> \o SortAsc(S \ {mn})

Reverse(q) == [i \in 1..Len(q) |-> q[Len(q) + 1 - i]]

\* Adjacencies with m stored ones in every row, the self-loop among them:
\* particle r is linked to r + sh (mod RN) for the shifts sh of one set,
\* except one row, which is linked to any m - 1 others.  A row is stored in
\* ascending column order, or with the self-loop first and the others in
\* descending order.
RotNeighborSets(m) ==
  UNION {{[r \in 0..(RN - 1) |->
             IF r = q THEN T ELSE {(r + sh) % RN : sh \in Sh}] :
            T \in {T2 \in SUBSET ((0..(RN - 1)) \ {q}) : Cardinality(T2) = m - 1},
            Sh \in {S2 \in SUBSET (1..(RN - 1)) : Cardinality(S2) = m - 1}} :
         q \in 0..(RN - 1)}

RotCSR(nb, m, ascending) ==
  [shape0 |-> RN,
   indptr |-> [r \in 1..(RN + 1) |-> (r - 1) * m],
   indices |-> Concat([r \in 1..RN |->
                         IF ascending THEN SortAsc(nb[r - 1] \cup {r - 1})
                         ELSE <<r - 1>> \o Reverse(SortAsc(nb[r - 1]))]),
   data |-> [e \in 1..(RN * m) |-> 1]]

RotSamples(m) ==
  {RotCSR(nb, m, asc) : nb \in RotNeighborSets(m), asc \in BOOLEAN}

\* the ring: r is linked to r + 1, ..., r + m - 1 (mod RN), stored ascending
RotRing(m) ==
  RotCSR([r \in 0..(RN - 1) |-> {(r + sh) % RN : sh \in 1..(m - 1)}], m, TRUE)

\* Values the initialisers may give the variables of a scope of two layers:
\* all different and non-zero (bias l + 1, weights 1..6 in layer 0 as in
\* toy_example, 7..12 in layer 1), or all zero.
RotChannels == <<1, 1, 1>>
RotTags == {"B", "W"} \X (0..1) \X (0..6)
RotDraws ==
  {[t \in RotTags |-> IF t[1] = "B" THEN t[2] + 1 ELSE 6 * t[2] + t[3]],
   [t \in RotTags |-> 0]}

\* edge features of shape (b, e, 1): all different, or a single 1
RotFeatures(b, e) ==
  {AsArray([i \in 1..b |-> AsArray([t \in 1..e |-> RInt(t * t + i)], e)], b),
   AsArray([i \in 1..b |->
              AsArray([t \in 1..e |-> RInt(IF t = i THEN 1 ELSE 0)], e)], b)}

\* initial positions of shape (b, N, 3)
RotPositions(b) ==
  {AsArray([i \in 1..b |->
              AsArray([p \in 1..RN |-> <<p * p + i, 2 * p, 7 - 3 * p * i>>],
                      RN)], b)}

\* The rotation-invariant batch: one sample ranges over all adjacencies, the
\* others are rings.  The last layer of the scope is the one run with is_last.
InitRot ==
  /\ pc = "rot_call"
  /\ M_nbrs \in 3..RM
  /\ \E bsz \in 1..RB :
       /\ \E g \in 1..bsz : \E a \in RotSamples(M_nbrs) :
            A_csr = [i \in 1..bsz |-> IF i = g THEN a ELSE RotRing(M_nbrs)]
       /\ X_edges \in RotFeatures(bsz, RN * (M_nbrs - 1) * (M_nbrs - 2))
       /\ X_init \in RotPositions(bsz)
  /\ W_rot \in {init_RotInv_params(RotChannels, draw) : draw \in RotDraws}
  /\ layer_id \in 0..(Len(RotChannels) - 2)
  /\ rot_is_last = (layer_id = Len(RotChannels) - 2)
  /\ segment_idx_3D = <<>> /\ segment_idx_2D = <<>>
  /\ layer_output = <<>> /\ final_positions = <<>>
  /\ CoreIdle
  /\ NetIdle
  /\ CubeIdle
  /\ FeatIdle
  /\ LossIdle

PreProcessAdjacencyBatch ==
  /\ pc = "rot_call"
  /\ LET ret == pre_process_adjacency_batch(A_csr, M_nbrs)
     IN  /\ A_csr' = ret.batch
         /\ IF ret.ok
            THEN /\ segment_idx_3D' = ret.out
                 /\ pc' = "rot_pre"
            ELSE /\ pc' = "error"
                 /\ UNCHANGED segment_idx_3D
  /\ UNCHANGED <<M_nbrs, segment_idx_2D, X_edges, W_rot, layer_id, rot_is_last,
                 layer_output, X_init, final_positions>>
  /\ UNCHANGED <<cubeVars, netVars, readoutVars, pbcVars, cooVars, layerVars, featVars, lossVars>>

GetSegmentIdx2D ==
  /\ pc = "rot_pre"
  /\ LET ret == get_segment_idx_2D(A_csr)
     IN  /\ A_csr' = ret.batch
         /\ segment_idx_2D' = ret.idx
  /\ pc' = "rot_idx"
  /\ UNCHANGED <<M_nbrs, segment_idx_3D, X_edges, W_rot, layer_id, rot_is_last,
                 layer_output, X_init, final_positions>>
  /\ UNCHANGED <<cubeVars, netVars, readoutVars, pbcVars, cooVars, layerVars, featVars, lossVars>>

RotInvLayer ==
  /\ pc = "rot_idx"
  /\ LET ret == RotInv_layer(X_edges, segment_idx_3D, W_rot, layer_id,
                             rot_is_last)
     IN  IF ret.ok
         THEN /\ layer_output' = ret.out
              /\ pc' = "rot_layer"
         ELSE /\ pc' = "error"
              /\ UNCHANGED layer_output
  /\ UNCHANGED <<A_csr, M_nbrs, segment_idx_3D, segment_idx_2D, X_edges, W_rot,
                 layer_id, rot_is_last, X_init, final_positions>>
  /\ UNCHANGED <<cubeVars, netVars, readoutVars, pbcVars, cooVars, layerVars, featVars, lossVars>>

\* toy_example, lines 443-450: the output of the last layer is reshaped to
\* the weights of get_final_position
GetFinalPosition ==
  /\ pc = "rot_layer"
  /\ rot_is_last
  /\ LET ret == get_final_position(X_init, segment_idx_2D, layer_output, M_nbrs)
     IN  IF ret.ok
         THEN /\ final_positions' = ret.out
              /\ pc' = "rot_done"
         ELSE /\ pc' = "error"
              /\ UNCHANGED final_positions
  /\ UNCHANGED <<A_csr, M_nbrs, segment_idx_3D, segment_idx_2D, X_edges, W_rot,
                 layer_id, rot_is_last, layer_output, X_init>>
  /\ UNCHANGED <<cubeVars, netVars, readoutVars, pbcVars, cooVars, layerVars, featVars, lossVars>>

NextRot ==
  PreProcessAdjacencyBatch \/ GetSegmentIdx2D \/ RotInvLayer \/ GetFinalPosition

SpecRot == InitRot /\ [][NextRot]_vars

(***************************************************************************)
(* nn.py: bounded mean squared error                                       *)
(*                                                                         *)
(* Coordinates are integers on a grid of LossG steps per box side; the     *)
(* arrays have one row per particle and four channels, the location and    *)
(* one further channel.  The loss is an exact rational in squared steps,   *)
(* or NaN (written 0/0) for the mean of an empty selection.               *)
(***************************************************************************)
\* x[..., :3]
loc(x) == [p \in 1..Len(x) |-> SubSeq(x[p], 1, 3)]

\* a selection that keeps the particles on the bounds
get_bounded_closed(x, bound) ==
  LET lower == bound[1]
      upper == bound[2]
  IN  [p \in 1..Len(x) |->
         \A a \in 1..Len(x[p]) : lower <= x[p][a] /\ x[p][a] <= upper]

\* get_bounded, lines 128-132
get_bounded(x, bound) ==
  LET lower == bound[1]
      upper == bound[2]
  IN  [p \in 1..Len(x) |->
         \A a \in 1..Len(x[p]) : lower < x[p][a] /\ x[p][a] < upper]

\* F.get_item(x, bidx) with a boolean mask
get_item(x, bidx) == compress(x, bidx, 1)

RECURSIVE SumTo(_, _)
SumTo(arr, k) == IF k = 0 THEN 0 ELSE arr[k] + SumTo(arr, k - 1)

\* F.sum(F.squared_difference(u, v), axis=-1) of one row
sum_squared_difference(u, v) ==
  SumTo([a \in 1..Len(u) |-> (u[a] - v[a]) * (u[a] - v[a])], Len(u))

\* the mean of no element at all
NaN == <<0, 0>>

\* F.mean of a one-dimensional array
mean(arr) ==
  IF Len(arr) = 0 THEN NaN ELSE Rat(SumTo(arr, Len(arr)), Len(arr))

\* get_bounded_MSE, lines 134-140
get_bounded_MSE(xh, xt, bnd) ==
  LET x_hat_loc == loc(xh)
      x_true_loc == loc(xt)
      bidx == get_bounded(x_true_loc, bnd)
      bhat == get_item(x_hat_loc, bidx)
      btrue == get_item(x_true_loc, bidx)
  IN  mean([p \in 1..Len(bhat) |-> sum_squared_difference(bhat[p], btrue[p])])

\* bounds lower < upper on the grid
LossBounds == {bd \in (0..(LossG - 1)) \X (0..(LossG - 1)) : bd[1] < bd[2]}

\* prediction errors
LossErrors == {<<0, 0, 0, 1>>, <<1, -2, 3, 0>>}

\* The first particle is anywhere on the grid; the others are either well
\* inside the box or have one coordinate on its lower face.
LossTruths ==
  {xt \in [1..LossN -> [1..4 -> 0..(LossG - 1)]] :
     /\ xt[1][4] = 0
     /\ \A p \in 2..LossN : xt[p] \in {<<1, 1, 1, 2>>, <<1, 0, 2, 2>>}}

InitLoss ==
  /\ pc = "mse_call"
  /\ mse_x_true \in LossTruths
  /\ \E er \in [1..LossN -> LossErrors] :
       mse_x_hat = [p \in 1..LossN |->
                      [a \in 1..4 |-> mse_x_true[p][a] + er[p][a]]]
  /\ mse_boundary \in LossBounds
  /\ mse_loss = <<>>
  /\ CoreIdle
  /\ NetIdle
  /\ CubeIdle
  /\ FeatIdle
  /\ RotIdle

GetBoundedMSE ==
  /\ pc = "mse_call"
  /\ mse_loss' = get_bounded_MSE(mse_x_hat, mse_x_true, mse_boundary)
  /\ pc' = "mse_ret"
  /\ UNCHANGED <<mse_x_hat, mse_x_true, mse_boundary>>
  /\ UNCHANGED <<cubeVars, netVars, readoutVars, pbcVars, cooVars, layerVars, featVars, rotVars>>

NextLoss == GetBoundedMSE

SpecLoss == InitLoss /\ [][NextLoss]_vars

(***************************************************************************)
(* Properties of the graph builder                                         *)
(***************************************************************************)
N == Len(clone_cube)

\* stored column indices of row i of a CSR matrix
RowOf(csr, i) == SubSeq(csr.indices, At(csr.indptr, i) + 1, At(csr.indptr, i + 1))

\* the adjacency just returned
Last(s) == s[Len(s)]

\* raw and remapped index arrays agree with the remap rule, none is >= n
Remapped(raw, res, n) ==
  /\ Len(res) = Len(raw)
  /\ \A k_idx \in 1..Len(raw) :
       /\ res[k_idx] < n
       /\ raw[k_idx] >= n => res[k_idx] = At(idx_map, raw[k_idx] - n)
       /\ raw[k_idx] < n => res[k_idx] = raw[k_idx]

\* C3: after the remap loop of get_pcube_csr / get_pcube_adjacency_list no
\* stored column index is >= N; every occurrence of an index k >= N has been
\* replaced by idx_map[k - N] and indices < N are unchanged.
C3_NoDanglingPaddingIndex ==
  /\ pc = "pbc_done" => Remapped(kgraph_raw, Last(csr_list).indices, N)
  /\ pc = "alist_ret" => Remapped(kgraph_raw, Concat(alist), N)

\* C3 witness: the search returned one padding row for two query particles,
\* and both occurrences were remapped
C3_Witness ==
  /\ pc = "pbc_done"
  /\ \E k1 \in 1..Len(kgraph_raw) : \E k2 \in 1..Len(kgraph_raw) :
       /\ k1 < k2
       /\ kgraph_raw[k1] >= N
       /\ kgraph_raw[k1] = kgraph_raw[k2]
       /\ Last(csr_list).indices[k2] = At(idx_map, kgraph_raw[k2] - N)

\* squared periodic (minimum-image) distance on the unit cube
pbc_axis(u, v) ==
  LET d == IF u >= v THEN u - v ELSE v - u
  IN  IF d <= G - d THEN d ELSE G - d

pbc_sqdist(p, q) ==
  pbc_axis(p[1], q[1]) * pbc_axis(p[1], q[1])
    + pbc_axis(p[2], q[2]) * pbc_axis(p[2], q[2])
    + pbc_axis(p[3], q[3]) * pbc_axis(p[3], q[3])

\* the particles particle i may have as neighbors
Candidates(i) == IF include_self THEN 0..(N - 1) ELSE (0..(N - 1)) \ {i}

\* S is a set of K nearest particles of particle i under the periodic distance
PeriodicKNearest(i, S) ==
  LET pd(j) == pbc_sqdist(At(clone_cube, i), At(clone_cube, j))
  IN  /\ S \subseteq Candidates(i)
      /\ Cardinality(S) = K
      /\ \A j \in S : \A l \in Candidates(i) \ S : pd(j) <= pd(l)

\* particle i has at least K candidate neighbors within the threshold,
\* measured periodically
DenseAt(i) ==
  Cardinality({j \in Candidates(i) :
                 pbc_sqdist(At(clone_cube, i), At(clone_cube, j))
                   <= boundary_threshold * boundary_threshold}) >= K

\* C4 as stated: for every threshold the remapped neighbors of every
\* particle are a set of K nearest particles under the periodic distance
\* (whenever the sample has K particles to choose from).
C4_Original ==
  pc = "pbc_done" =>
    \A i \in 0..(N - 1) :
      Cardinality(Candidates(i)) >= K =>
        PeriodicKNearest(i, Range(RowOf(Last(csr_list), i)))

\* C4 (amended): when a particle has at least K candidate neighbors within
\* periodic distance threshold, its remapped neighbors are a set of K
\* nearest particles under the periodic distance.
C4_PeriodicNearestWhenDense ==
  pc = "pbc_done" =>
    \A i \in 0..(N - 1) :
      DenseAt(i) => PeriodicKNearest(i, Range(RowOf(Last(csr_list), i)))

\* C4 witness: a dense particle one of whose neighbors was found through a
\* periodic image
C4_Witness ==
  /\ pc = "pbc_done"
  /\ \E i \in 0..(N - 1) :
       /\ DenseAt(i)
       /\ \E k_idx \in (i * K + 1)..((i + 1) * K) : kgraph_raw[k_idx] >= N

\* C5: the returned adjacency has an entry (i, i) exactly when include_self
\* is set; with include_self=False no row i holds column i after the remap.
C5_SelfLoopsIffIncludeSelf ==
  pc = "pbc_done" =>
    \A i \in 0..(N - 1) :
      (i \in Range(RowOf(Last(csr_list), i))) <=> include_self

BatchSize == Len(A)
NumParticles == At(A, 0).shape0
NumNeighbors == Len(At(A, 0).indices) \div NumParticles
EdgesPerSample == NumParticles * NumNeighbors

\* every sample of the batch has N*M stored entries
UniformBatch == \A i \in 0..(BatchSize - 1) : Len(At(A, i).indices) = EdgesPerSample

\* C7: for b adjacencies with N*M non-zeros each the assembled arrays have
\* length b*N*M; positions [i*N*M, (i+1)*N*M) hold sample i's stored entries
\* in CSR order with row = r + i*N, col = c + i*N, cube = i.
C7_BatchCOOLayout ==
  UniformBatch =>
    /\ pc # "error"
    /\ pc \in {"coo_ret", "diag_ret"} =>
         /\ Len(COO_feats) = 3
         /\ \A f \in 1..3 : Len(COO_feats[f]) = BatchSize * EdgesPerSample
         /\ \A i \in 0..(BatchSize - 1) : \A e \in 0..(EdgesPerSample - 1) :
              LET pos == i * EdgesPerSample + e
                  csr == At(A, i)
              IN  /\ \E r \in 0..(NumParticles - 1) :
                        /\ At(csr.indptr, r) <= e /\ e < At(csr.indptr, r + 1)
                        /\ At(COO_feats[1], pos) = r + i * NumParticles
                  /\ At(COO_feats[2], pos) = At(csr.indices, e) + i * NumParticles
                  /\ At(COO_feats[3], pos) = i

\* C7 witness: an assembled batch of two samples whose second sample has an
\* off-diagonal edge
C7_Witness ==
  /\ pc = "diag_ret"
  /\ BatchSize >= 2
  /\ \E pos \in EdgesPerSample..(2 * EdgesPerSample - 1) :
       /\ At(COO_feats[3], pos) = 1
       /\ At(COO_feats[1], pos) # At(COO_feats[2], pos)
       /\ At(COO_feats[1], pos) >= NumParticles

\* C8: diagonals holds exactly the positions e with row[e] = col[e], each
\* once; hence at most b*N entries, one for each particle that is its own
\* neighbor (and none for the others).
C8_DiagonalIndexSet ==
  pc = "diag_ret" =>
    LET row == COO_feats[1]
        col == COO_feats[2]
        selfEdges == {e \in 0..(Len(row) - 1) : At(row, e) = At(col, e)}
    IN  /\ Range(diagonals) = selfEdges
        /\ Len(diagonals) = Cardinality(selfEdges)
        /\ Len(diagonals) <= BatchSize * NumParticles
        /\ \A particle \in 0..(BatchSize * NumParticles - 1) :
             Cardinality({e \in selfEdges : At(row, e) = particle}) <= 1

\* C9: for a batch the assembler accepts, the column indices rebuilt from
\* A[i].indices + i*N equal the assembled col array element for element
\* (the assertion of confirm_CSR_to_COO_index_integrity never fails).
C9_CSRMatchesCOO ==
  /\ pc # "assertion_error"
  /\ pc = "confirmed" =>
       /\ Len(CSR_feats) = Len(COO_feats[2])
       /\ \A e \in 1..Len(CSR_feats) : CSR_feats[e] = COO_feats[2][e]

\* C9 witness: the check passed on a batch of two samples, the second one
\* contributing an offset column index
C9_Witness ==
  /\ pc = "confirmed"
  /\ BatchSize >= 2
  /\ \E e \in (EdgesPerSample + 1)..Len(CSR_feats) :
       CSR_feats[e] > At(A, 1).indices[e - EdgesPerSample]

(***************************************************************************)
(* Properties of the shift-invariant layer                                 *)
(***************************************************************************)
Edges == 1..Len(adj.row)

IsDiag(e) == adj.row[e] = adj.col[e]

\* the self-loop edge of particle p, the transpose edge of edge e
DiagEdgeOf(p) == CHOOSE e \in Edges : adj.row[e] = p /\ adj.col[e] = p
TransposeOf(e) ==
  CHOOSE e2 \in Edges : adj.row[e2] = adj.col[e] /\ adj.col[e2] = adj.row[e]

\* mean of the input features over a non-empty set of edges
MeanOver(J) == RDiv(RSumOver(J, H_in), Cardinality(J))

SameCol(c) == {e \in Edges : adj.col[e] = c}
SameRow(r) == {e \in Edges : adj.row[e] = r}
SameCube(k) == {e \in Edges : adj.all[e] = k}
DiagIn(k) == {e \in Edges : IsDiag(e) /\ adj.all[e] = k}

OnDiag(e, v) == IF IsDiag(e) THEN v ELSE RZero

\* what operator i (0..14) contributes at edge e before its weight
OpTerm(i, e) ==
  CASE i = 0  -> H_in[e]
    [] i = 1  -> H_in[TransposeOf(e)]
    [] i = 2  -> OnDiag(e, H_in[e])
    [] i = 3  -> MeanOver(SameCol(adj.col[e]))
    [] i = 4  -> MeanOver(SameCol(adj.row[e]))
    [] i = 5  -> OnDiag(e, MeanOver(SameCol(adj.row[e])))
    [] i = 6  -> MeanOver(SameRow(adj.row[e]))
    [] i = 7  -> MeanOver(SameRow(adj.col[e]))
    [] i = 8  -> OnDiag(e, MeanOver(SameRow(adj.row[e])))
    [] i = 9  -> MeanOver(SameCube(adj.all[e]))
    [] i = 10 -> OnDiag(e, MeanOver(SameCube(adj.all[e])))
    [] i = 11 -> MeanOver(DiagIn(adj.all[e]))
    [] i = 12 -> OnDiag(e, MeanOver(DiagIn(adj.all[e])))
    [] i = 13 -> H_in[DiagEdgeOf(adj.col[e])]
    [] i = 14 -> H_in[DiagEdgeOf(adj.row[e])]

RECURSIVE WeightedTerms(_, _)
WeightedTerms(i, e) ==
  IF i = 15 THEN RZero
  ELSE RAdd(RScale(At(layer_vars[1], i), OpTerm(i, e)), WeightedTerms(i + 1, e))

ExpectedOutput(e) ==
  RAdd(RAdd(WeightedTerms(0, e), RInt(At(layer_vars[2], 1))),
       OnDiag(e, RInt(At(layer_vars[2], 0))))

\* C10: with is_last=False the output at every edge is the sum of the 15
\* operator terms, term i weighted by W[i] alone, plus the global bias B[1]
\* everywhere and the diagonal bias B[0] on diagonal edges only; every
\* pooling is a segment mean, pool-rows grouping by col and pool-cols by row.
C10_FifteenOperatorSum ==
  (pc = "layer_ret" /\ ~is_last) =>
    /\ Len(H_out) = Len(H_in)
    /\ \A e \in Edges : H_out[e] = ExpectedOutput(e)

\* C10 witness: a batch of two samples, all 15 weights and both biases
\* non-zero, and a column segment of several edges with different features
C10_Witness ==
  /\ pc = "layer_ret"
  /\ ~is_last
  /\ bN[1] = 2
  /\ \A i \in 0..14 : At(layer_vars[1], i) # 0
  /\ At(layer_vars[2], 0) # 0 /\ At(layer_vars[2], 1) # 0
  /\ \E e1 \in Edges : \E e2 \in Edges :
       /\ e1 # e2
       /\ adj.col[e1] = adj.col[e2]
       /\ H_in[e1] # H_in[e2]
       /\ ~IsDiag(e1)


\* C1: after get_readout, every coordinate v in [-1, 2) has been folded into
\* [0, 1): v + 1 when v < 0, v - 1 when v >= 1, v itself otherwise
\* (so 1.3 gives 0.3 and -0.2 gives 0.8).
C1_PeriodicWrap ==
  pc = "readout_ret" =>
    \A a \in Axes :
      LET v == x_hat[a]
          r == readout_xhat[a]
      IN  /\ r = (IF v < 0 THEN v + RS ELSE IF v >= RS THEN v - RS ELSE v)
          /\ 0 <= r /\ r < RS


(***************************************************************************)
(* Relabelling the particles of one sample                                 *)
(***************************************************************************)
ParticlePerms ==
  {pi \in [0..(LN - 1) -> 0..(LN - 1)] :
     \A a \in 0..(LN - 1) : \A c \in 0..(LN - 1) : a # c => pi[a] # pi[c]}

\* new global index of particle g when sample s is relabelled by pi
Relabel(s, pi, g) == IF g \div LN = s THEN s * LN + pi[g % LN] ELSE g

RelabelInv(s, pi, q) ==
  CHOOSE g \in 0..(bN[1] * LN - 1) : Relabel(s, pi, g) = q

\* The relabelled graph, its input features and the returned features
\* carried along: edges are again in row-major order of the new labels.
Permuted(s, pi) ==
  LET S == Len(adj.row)
      P == Len(adj.dia)
      key == AsArray([e \in Edges |->
                        Relabel(s, pi, adj.row[e]) * (bN[1] * LN)
                          + Relabel(s, pi, adj.col[e])], S)
      newpos == AsArray([e \in Edges |->
                  1 + Cardinality({e2 \in Edges : key[e2] < key[e]})], S)
      oldof == AsArray([j \in Edges |-> CHOOSE e \in Edges : newpos[e] = j], S)
      inv == AsArray([q \in 1..P |-> RelabelInv(s, pi, q - 1)], P)
  IN  [adj |->
         [row |-> AsArray([j \in Edges |->
                             Relabel(s, pi, adj.row[oldof[j]])], S),
          col |-> AsArray([j \in Edges |->
                             Relabel(s, pi, adj.col[oldof[j]])], S),
          all |-> AsArray([j \in Edges |-> adj.all[oldof[j]]], S),
          tra |-> AsArray([j \in Edges |->
                             newpos[adj.tra[oldof[j]] + 1] - 1], S),
          dia |-> AsArray([q \in 1..P |-> newpos[At(adj.dia, inv[q]) + 1] - 1], P),
          dal |-> AsArray([q \in 1..P |-> At(adj.dal, inv[q])], P)],
       H_in |-> AsArray([j \in Edges |-> H_in[oldof[j]]], S),
       H_out |->
         IF is_last
         THEN [t \in 1..bN[1] |->
                 [q \in 1..LN |-> H_out[t][(inv[(t - 1) * LN + q] % LN) + 1]]]
         ELSE [j \in Edges |-> H_out[oldof[j]]]]

\* C11: relabelling the particles of any one sample by any permutation
\* (indices, edge order and input features relabelled together) makes
\* shift_inv_15op_layer and shift_inv_layer return the output relabelled the
\* same way, per edge when is_last is false and per particle when it is true.
C11_PermutationEquivariance ==
  \A s \in 0..(LB - 1) : \A pi \in ParticlePerms :
    (pc \in {"layer_ret", "shift_inv_layer_ret"} /\ s < bN[1]) =>
      LET p == Permuted(s, pi)
      IN  /\ pc = "layer_ret" =>
               shift_inv_15op_layer(p.H_in, p.adj, bN, layer_vars, is_last)
                 = p.H_out
          /\ pc = "shift_inv_layer_ret" =>
               shift_inv_layer(p.H_in, <<p.adj.row, p.adj.col, p.adj.all>>,
                               bN, layer_vars, is_last) = p.H_out

\* C11 witness: a relabelling that moves the input features, and an output
\* that is not the same at every particle of the relabelled sample
C11_Witness ==
  /\ pc = "layer_ret"
  /\ is_last
  /\ bN[1] = 2
  /\ \E pi \in ParticlePerms :
       LET p == Permuted(1, pi)
       IN  /\ p.H_in # H_in
           /\ p.H_out # H_out
           /\ p.H_out[1] = H_out[1]

(***************************************************************************)
(* Final-layer readout                                                     *)
(***************************************************************************)
\* per-edge output of shift_inv_layer: the four weighted terms and the bias
ExpectedOutput4(e) ==
  LET W == layer_vars[1]
  IN  RAdd(RAdd(RAdd(RScale(W[1], H_in[e]),
                     RScale(W[2], MeanOver(SameCol(adj.col[e])))),
                RAdd(RScale(W[3], MeanOver(SameRow(adj.row[e]))),
                     RScale(W[4], MeanOver(SameCube(adj.all[e]))))),
           RInt(layer_vars[2]))

\* C12: with is_last=True both layers return b rows of N entries, and the
\* entry of sample s, particle p is the mean of the per-edge layer output
\* over exactly the edges e with row[e] = s*N + p.
C12_LastLayerRowMean ==
  (pc \in {"layer_ret", "shift_inv_layer_ret"} /\ is_last) =>
    LET perEdge == AsArray([e \in Edges |->
                              IF pc = "layer_ret" THEN ExpectedOutput(e)
                              ELSE ExpectedOutput4(e)], Len(adj.row))
    IN  /\ Len(H_out) = bN[1]
        /\ \A s \in 0..(bN[1] - 1) :
             /\ Len(H_out[s + 1]) = bN[2]
             /\ \A q \in 0..(bN[2] - 1) :
                  LET members == SameRow(s * bN[2] + q)
                  IN  /\ members # {}
                      /\ At(At(H_out, s), q)
                           = RDiv(RSumOver(members, perEdge),
                                  Cardinality(members))

\* C12 witness: a final layer over two samples in which a particle has
\* several edges whose per-edge outputs differ
C12_Witness ==
  /\ pc = "shift_inv_layer_ret"
  /\ is_last
  /\ bN[1] = 2
  /\ \E e1 \in Edges : \E e2 \in Edges :
       /\ adj.row[e1] = adj.row[e2]
       /\ adj.row[e1] >= bN[2]
       /\ ExpectedOutput4(e1) # ExpectedOutput4(e2)

(***************************************************************************)
(* Properties of the input edge features                                   *)
(***************************************************************************)
ShiftVectors == {<<1, 0, 0>>, <<-2, 3, 1>>}

\* the positions with the constant c added to every particle of sample s
ShiftedPos(s, c) ==
  [i \in 1..Len(init_pos) |->
     IF i = s THEN [q \in 1..Len(init_pos[i]) |->
                      [a \in Axes |-> init_pos[i][q][a] + c[a]]]
     ELSE init_pos[i]]

ShiftedX(s, c) ==
  [i \in 1..Len(init_pos) |->
     [q \in 1..Len(init_pos[i]) |->
        ShiftedPos(s, c)[i][q] \o ZA_displacement[i][q]]]

\* position[col[e]] - position[row[e]], plus za on a diagonal edge
RelativeFeature(e, za) ==
  LET r == At(coo, 0)[e]
      c == At(coo, 1)[e]
      P == Concat(init_pos)
  IN  [a \in Axes |-> At(P, c)[a] - At(P, r)[a]
                        + (IF za /\ r = c THEN At(Concat(ZA_displacement), r)[a]
                           ELSE 0)]

\* C13: the feature of edge e is position[col[e]] - position[row[e]], plus
\* the ZA displacement of the particle on its diagonal edge, and adding one
\* constant vector to every position of a sample changes neither the
\* features nor whether the builder fails.
C13_ShiftInvariantFeatures ==
  /\ pc = "feat_ret" =>
       /\ \A e \in 1..Len(features_out) :
            features_out[e] = RelativeFeature(e, TRUE)
       /\ \A s \in 1..dims[1] : \A c \in ShiftVectors :
            LET ret == get_input_features_shift_inv_ZA(
                         ShiftedPos(s, c), ZA_displacement, coo, diag, dims)
            IN  ret.ok /\ ret.features_out = features_out
  /\ pc = "feat_noza_ret" =>
       /\ \A e \in 1..Len(features_out) :
            features_out[e] = RelativeFeature(e, FALSE)
       /\ \A s \in 1..dims[1] : \A c \in ShiftVectors :
            LET ret == get_input_features_shift_inv(ShiftedX(s, c), coo, dims)
            IN  ret.ok /\ ret.edges = features_out /\ ret.nodes = nodes
  /\ (pc = "error" /\ dims # <<>>) =>
       \A s \in 1..dims[1] : \A c \in ShiftVectors :
         ~get_input_features_shift_inv_ZA(
            ShiftedPos(s, c), ZA_displacement, coo, diag, dims).ok

\* C13 witness: two samples, a diagonal edge that carries a non-zero
\* displacement and an off-diagonal edge between particles at different
\* positions
C13_Witness ==
  /\ pc = "feat_ret"
  /\ dims[1] = 2
  /\ \E e1 \in 1..Len(features_out) : \E e2 \in 1..Len(features_out) :
       /\ At(coo, 0)[e1] = At(coo, 1)[e1]
       /\ features_out[e1] # VZero
       /\ At(coo, 0)[e2] # At(coo, 1)[e2]
       /\ features_out[e2] # VZero
       /\ At(coo, 2)[e2] = 1

(***************************************************************************)
(* Properties of the rotation-invariant pre- and postprocessing            *)
(***************************************************************************)
\* C14: the adjacency of a minibatch is built once and no consumer modifies
\* it: no step changes the adjacency matrices or index arrays it is given.
C14_StaticGraph ==
  [][/\ A_csr' = A_csr
     /\ A' = A
     /\ adj' = adj
     /\ coo' = coo /\ diag' = diag
     /\ (segment_idx_3D # <<>> => segment_idx_3D' = segment_idx_3D)
     /\ (segment_idx_2D # <<>> => segment_idx_2D' = segment_idx_2D)]_vars

(***************************************************************************)
(* Index map of the boundary padder                                        *)
(***************************************************************************)
\* non-zero offsets with components in {-1, 0, +1}, in cube lengths
UnitOffsets == {o \in [Axes -> {-1, 0, 1}] : \E a \in Axes : o[a] # 0}

PaddedLayout ==
  pc = "pad_ret" =>
    LET n == Len(clone_cube)
    IN  /\ Len(padded_cube) = n + Len(idx_map)
        /\ \A i \in 1..n : padded_cube[i] = clone_cube[i]
        /\ \A j \in 1..Len(idx_map) :
             /\ idx_map[j] \in 0..(n - 1)
             /\ \E o \in UnitOffsets :
                  padded_cube[n + j] =
                    [a \in Axes |-> At(clone_cube, idx_map[j])[a] + o[a] * G]
             /\ j > 1 => idx_map[j - 1] <= idx_map[j]

\* C15: the padded array is the N input rows, unchanged and in order,
\* followed by one row per idx_map entry; row N + j is x[idx_map[j]] moved by
\* a non-zero offset with components in {-1, 0, +1} cube lengths, images
\* being appended particle after particle; the input array is never changed.
C15_PadIndexMap ==
  /\ []PaddedLayout
  /\ [][clone_cube' = clone_cube]_vars

\* C15 witness: two boundary particles, the second one's images appended
\* after the first one's
C15_Witness ==
  /\ pc = "pad_ret"
  /\ Len(idx_map) >= 4
  /\ idx_map[1] = 0
  /\ idx_map[Len(idx_map)] = 1
  /\ padded_cube[1] # padded_cube[2]

\* the stored entries (row, col) of the matrix a
EdgesOf(a) ==
  LET rows == AsArray(expandptr(a), Len(a.indices))
  IN  {<<rows[e], a.indices[e]>> : e \in 1..Len(a.indices)}

\* C16: for an adjacency whose rows hold M ones each, the self-loop among
\* them, the row, col and depth arrays all have N*(M-1)*(M-2) entries, and
\* every triplet (r, c, d) has r, c, d pairwise distinct with (r, c) and
\* (r, d) edges of the adjacency.  (Read off the first sample of the batch,
\* whose ids carry no offset.)
C16_ThirdOrderAdjacency ==
  /\ ~(pc = "error" /\ A_csr # <<>>)
  /\ segment_idx_3D # <<>> =>
       LET r == segment_idx_3D[1][1]
           c == segment_idx_3D[1][2]
           d == segment_idx_3D[1][3]
           e == RN * (M_nbrs - 1) * (M_nbrs - 2)
           edges == EdgesOf(A_csr[1])
       IN  /\ Len(r) = e /\ Len(c) = e /\ Len(d) = e
           /\ \A t \in 1..e :
                /\ r[t] # c[t] /\ r[t] # d[t] /\ c[t] # d[t]
                /\ <<r[t], c[t]>> \in edges
                /\ <<r[t], d[t]>> \in edges

\* C16 witness: the triplets of an adjacency that is not a ring and whose
\* rows are not stored in ascending column order
C16_Witness ==
  /\ pc = "rot_pre"
  /\ A_csr[1].indices[2] > A_csr[1].indices[3]
  /\ \E q \in 1..RN :
       A_csr[1].indices[(q - 1) * M_nbrs + 2] # (q + 1) % RN
  /\ Len(segment_idx_3D[1][3]) = RN * (M_nbrs - 1) * (M_nbrs - 2)

\* C17: after the offset loop, in each of the 7 id arrays every id of
\* sample i is greater than every id of sample i - 1, so the samples of a
\* batch share no segment.
C17_DisjointSegmentIds ==
  segment_idx_3D # <<>> =>
    \A i \in 2..Len(segment_idx_3D) : \A j \in 1..7 :
      \A x \in Range(segment_idx_3D[i][j]) :
        \A y \in Range(segment_idx_3D[i - 1][j]) : x > y

\* C17 witness: a batch of two samples whose depth-pooling ids (pairs of row
\* and col) reach beyond the particle count in the first sample
C17_Witness ==
  /\ pc = "rot_pre"
  /\ Len(segment_idx_3D) = 2
  /\ Max(segment_idx_3D[1][4]) >= RN
  /\ Max(segment_idx_3D[2][4]) > Max(segment_idx_3D[1][4])
  /\ segment_idx_3D[2][7][1] = 1

(***************************************************************************)
(* Properties of the rotation-invariant layer                              *)
(***************************************************************************)
\* the triplets of sample i that agree with triplet t on the given axes
\* (1 = row, 2 = col, 3 = depth)
SameIds(i, t, axes) ==
  {u \in 1..Len(X_edges[i]) :
     \A j \in axes : segment_idx_3D[i][j][u] = segment_idx_3D[i][j][t]}

Min(arr) == CHOOSE v \in Range(arr) : \A w \in Range(arr) : v <= w

RotMean(i, J) ==
  RDiv(RSumRange(J, X_edges[i], 1, Len(X_edges[i])), Cardinality(J))

\* the value of weight variable w of the layer that is run, and of its bias
RotVar(w) == W_rot[<<"W", layer_id, w>>]
RotBias == W_rot[<<"B", layer_id, 0>>]

\* What the layer owes triplet t of sample i before any last-layer pooling:
\* variable 6 on the input, 1 on the mean over col and depth, 2 on both the
\* mean over row and depth and the mean over row and col, 3 on both the mean
\* over depth and the mean over col, 4 on the mean over row, 5 on the mean
\* over the sample, plus the bias.
ExpectedRotOutput(i, t) ==
  LET P(axes) == RotMean(i, SameIds(i, t, axes))
  IN  RAdd(RScale(RotVar(6), X_edges[i][t]),
      RAdd(RScale(RotVar(1), P({1})),
      RAdd(RScale(RotVar(2), RAdd(P({2}), P({3}))),
      RAdd(RScale(RotVar(3), RAdd(P({1, 2}), P({1, 3}))),
      RAdd(RScale(RotVar(4), P({2, 3})),
      RAdd(RScale(RotVar(5), P({})), RInt(RotBias)))))))

\* C18: row-depth and row-col pooling use one weight variable, depth and col
\* pooling another, the six variables (col-depth, the two shared ones, row,
\* all, no-pool) are pairwise distinct, init_RotInv_params creates exactly
\* six weights in every layer, and the layer's output is the sum of its
\* eight terms under that sharing (depth-pooled when is_last).
C18_RotInvWeightSharing ==
  /\ WMAP_3D["RD"] = WMAP_3D["RC"]
  /\ WMAP_3D["D"] = WMAP_3D["C"]
  /\ Cardinality({WMAP_3D[p] : p \in {"CD", "RD", "D", "R", "A", "Z"}}) = 6
  /\ \A l \in 0..(Len(RotChannels) - 2) :
       {t \in DOMAIN W_rot : t[1] = "W" /\ t[2] = l}
         = {<<"W", l, w>> : w \in 1..6}
  /\ pc \in {"rot_layer", "rot_done"} =>
       \A i \in 1..Len(X_edges) :
         LET want == AsArray([t \in 1..Len(X_edges[i]) |->
                                ExpectedRotOutput(i, t)], Len(X_edges[i]))
             first == Min(segment_idx_3D[i][4])
         IN  \A t \in 1..Len(X_edges[i]) :
               IF rot_is_last
               THEN LET J == SameIds(i, t, {1, 2})
                    IN  layer_output[i][segment_idx_3D[i][4][t] - first + 1]
                          = RDiv(RSumRange(J, want, 1, Len(want)),
                                 Cardinality(J))
               ELSE layer_output[i][t] = want[t]

\* C18 witness: a layer without final pooling has run with six different
\* weights on a triplet whose row-depth and row-col means differ from each
\* other and from its row mean
C18_Witness ==
  /\ pc = "rot_layer"
  /\ ~rot_is_last
  /\ Cardinality({RotVar(w) : w \in 1..6}) = 6
  /\ \E i \in 1..Len(X_edges) : \E t \in 1..Len(X_edges[i]) :
       /\ RotMean(i, SameIds(i, t, {2})) # RotMean(i, SameIds(i, t, {3}))
       /\ RotMean(i, SameIds(i, t, {3})) # RotMean(i, SameIds(i, t, {2, 3}))
       /\ layer_output[i][t] = ExpectedRotOutput(i, t)

(***************************************************************************)
(* Properties of the rotation-invariant postprocessing                     *)
(***************************************************************************)
\* the off-diagonal edges (q, j) of sample i
RotEdgesOf(i) ==
  LET nz == nonzero(A_csr[i])
  IN  {<<nz.row[e], nz.col[e]>> : e \in 1..Len(nz.row)}

\* the depth-pooled output of the last layer for the edge pr of sample i:
\* edges are numbered in the order of (row, col)
EdgeWeight(i, pr) ==
  LET below == {x \in RotEdgesOf(i) :
                  x[1] < pr[1] \/ (x[1] = pr[1] /\ x[2] < pr[2])}
  IN  layer_output[i][Cardinality(below) + 1]

\* X[q] + sum over the neighbors j of q of w[q, j] * (X[j] - X[q])
ExpectedFinalPosition(i, q) ==
  LET nbrs == {pr \in RotEdgesOf(i) : pr[1] = q}
      X == X_init[i]
  IN  [a \in Axes |->
         RAdd(RInt(X[q + 1][a]),
              RSumOver(nbrs, [pr \in nbrs |->
                                RScale(X[pr[2] + 1][a] - X[q + 1][a],
                                       EdgeWeight(i, pr))]))]

RotShift == <<3, -1, 2>>

PairedWeightedSum ==
  \A i \in 1..Len(X_init) : \A q \in 0..(RN - 1) :
    final_positions[i][q + 1] = ExpectedFinalPosition(i, q)

ZeroWeightsKeepPositions ==
  (\A i \in 1..Len(layer_output) : \A w \in Range(layer_output[i]) : w = RZero)
    => \A i \in 1..Len(X_init) : \A p \in 1..RN : \A a \in Axes :
         final_positions[i][p][a] = RInt(X_init[i][p][a])

TranslationEquivariant ==
  LET moved == [i \in 1..Len(X_init) |->
                  [p \in 1..RN |-> VAdd(X_init[i][p], RotShift)]]
      ret == get_final_position(moved, segment_idx_2D, layer_output, M_nbrs)
  IN  /\ ret.ok
      /\ \A i \in 1..Len(X_init) : \A p \in 1..RN : \A a \in Axes :
           ret.out[i][p][a] = RAdd(final_positions[i][p][a], RInt(RotShift[a]))

\* C19: every returned position is the initial position plus the sum over
\* the particle's M - 1 neighbors of the edge's weight times the relative
\* position; all-zero weights return the initial positions; translating all
\* initial positions translates the result.
C19_FinalPosition ==
  pc = "rot_done" =>
    /\ PairedWeightedSum
    /\ ZeroWeightsKeepPositions
    /\ TranslationEquivariant

(***************************************************************************)
(* Properties of the bounded loss                                          *)
(***************************************************************************)
\* the particles whose true location is strictly inside the bounds on all
\* three axes
Included ==
  {p \in 1..Len(mse_x_true) :
     \A a \in Axes : /\ mse_boundary[1] < mse_x_true[p][a]
                     /\ mse_x_true[p][a] < mse_boundary[2]}

\* summed squared location difference of particle p
SquaredError(p) ==
  LET dx == [a \in Axes |-> mse_x_hat[p][a] - mse_x_true[p][a]]
  IN  dx[1] * dx[1] + dx[2] * dx[2] + dx[3] * dx[3]

\* other rows an excluded particle p could hold: any of three predictions
\* with its own true row, or with a true row on the lower or upper bound
ExcludedRows(p) ==
  {<<0, 0, 0, 0>>, <<5, -3, 2, 1>>, mse_x_hat[p]}
  \X {mse_x_true[p],
      <<mse_boundary[1], mse_boundary[1], mse_boundary[1], 3>>,
      <<mse_boundary[2], mse_boundary[1] + 1, mse_boundary[1] + 1, 0>>}

\* C20: the loss is the mean over the included particles of their summed
\* squared location difference, and replacing the prediction and the true
\* row of an excluded particle by other excluded values leaves it unchanged.
C20_BoundedMSE ==
  pc = "mse_ret" =>
    /\ Included # {} =>
         mse_loss = RDiv(RSumOver(Included,
                                  [p \in Included |-> RInt(SquaredError(p))]),
                         Cardinality(Included))
    /\ \A p \in (1..Len(mse_x_true)) \ Included : \A row \in ExcludedRows(p) :
         get_bounded_MSE([mse_x_hat EXCEPT ![p] = row[1]],
                         [mse_x_true EXCEPT ![p] = row[2]],
                         mse_boundary) = mse_loss

\* C20 witness: one particle is included with an error, another lies on the
\* lower bound on one axis only and has an error too
C20_Witness ==
  /\ pc = "mse_ret"
  /\ \E p \in Included : SquaredError(p) > 0
  /\ \E p \in (1..Len(mse_x_true)) \ Included :
       /\ SquaredError(p) > 0
       /\ \E a \in Axes :
            /\ mse_x_true[p][a] = mse_boundary[1]
            /\ \A c \in Axes \ {a} : /\ mse_boundary[1] < mse_x_true[p][c]
                                    /\ mse_x_true[p][c] < mse_boundary[2]
  /\ mse_loss[1] > 0

(***************************************************************************)
(* nn.py: mean_squared_error and the minimum-image loss                    *)
(*                                                                         *)
(* Coordinates are integers in steps of 1/RS of the box side, as in        *)
(* get_readout; boundary None is written <<>>.                             *)
(***************************************************************************)
\* F.minimum
minimum(u, v) == IF u <= v THEN u ELSE v

\* F.square
square(u) == u * u

\* lines 122-123 for one coordinate; the constant 1 of the source is RS
min_readout_dist(r, t) ==
  minimum(minimum(square(r - t), square(r - (RS + t))), square((RS + r) - t))

\* get_min_readout_MSE, lines 118-125
get_min_readout_MSE(xh, xt) ==
  LET x_true_loc == loc(xt)
  IN  mean([p \in 1..Len(xh) |->
              SumTo([a \in Axes |->
                       min_readout_dist(get_readout(xh[p])[a],
                                        x_true_loc[p][a])], 3)])

\* mean_squared_error, lines 104-108
mean_squared_error(xh, xt, bnd) ==
  IF bnd = <<>> THEN get_min_readout_MSE(xh, xt)
  ELSE get_bounded_MSE(xh, xt, bnd)

\* The first particle's prediction ranges over three box sides on the first
\* axis and its truth over the box; the other particles are predicted
\* exactly or across the upper face.
MinMSETruths ==
  {[p \in 1..MinN |-> IF p = 1 THEN <<t, 1, RS - 1, 0>> ELSE <<2, 2, 2, 0>>] :
     t \in 0..(RS - 1)}

MinMSEPredictions ==
  {[p \in 1..MinN |-> IF p = 1 THEN <<v, w, 0, 0>> ELSE others[p]] :
     v \in (-RS)..(3 * RS - 1), w \in {1, 2},
     others \in [1..MinN -> {<<2, 2, 2, 0>>, <<RS + 1, 2, 3, 0>>}]}

InitMinMSE ==
  /\ pc = "loss_call"
  /\ mse_x_true \in MinMSETruths
  /\ mse_x_hat \in MinMSEPredictions
  /\ mse_boundary \in {<<>>, <<1, RS - 1>>}
  /\ mse_loss = <<>>
  /\ CoreIdle
  /\ NetIdle
  /\ CubeIdle
  /\ FeatIdle
  /\ RotIdle

MeanSquaredError ==
  /\ pc = "loss_call"
  /\ mse_loss' = mean_squared_error(mse_x_hat, mse_x_true, mse_boundary)
  /\ pc' = "loss_ret"
  /\ UNCHANGED <<mse_x_hat, mse_x_true, mse_boundary>>
  /\ UNCHANGED <<cubeVars, netVars, readoutVars, pbcVars, cooVars, layerVars, featVars, rotVars>>

NextMinMSE == MeanSquaredError

SpecMinMSE == InitMinMSE /\ [][NextMinMSE]_vars

(***************************************************************************)
(* C21: minimum-image loss                                                 *)
(***************************************************************************)
\* min over s in {0, +1, -1} of (p - t + s)^2 for one coordinate
MinImageSq(p, t) ==
  minimum(minimum(square(p - t), square(p - t + RS)), square(p - t - RS))

\* the squared periodic distance of two coordinates of the box
PeriodicSq(p, t) ==
  LET d == IF p >= t THEN p - t ELSE t - p
  IN  square(minimum(d, RS - d))

InBox(x) == \A p \in 1..Len(x) : \A a \in Axes : 0 <= x[p][a] /\ x[p][a] < RS

MinImageLoss(xh, xt) ==
  mean([p \in 1..Len(xh) |-> SumTo([a \in Axes |-> MinImageSq(xh[p][a], xt[p][a])], 3)])

\* C21: with boundary None the loss is the mean over the particles of the
\* sum over the three axes of min over s in {0, +1, -1} of (p - t + s)^2,
\* taken on the prediction p itself, and it is the squared periodic distance
\* when prediction and truth lie in [0, 1).
C21_MinImageMSE ==
  (pc = "loss_ret" /\ mse_boundary = <<>>) =>
    /\ mse_loss = MinImageLoss(mse_x_hat, mse_x_true)
    /\ InBox(mse_x_hat) /\ InBox(mse_x_true) =>
         mse_loss = mean([p \in 1..Len(mse_x_hat) |->
                            SumTo([a \in Axes |->
                                     PeriodicSq(mse_x_hat[p][a],
                                                mse_x_true[p][a])], 3)])

\* the part of C21 that the code keeps: inside the box the loss is the mean
\* squared periodic distance
C21_InsideBox ==
  (pc = "loss_ret" /\ mse_boundary = <<>>
     /\ InBox(mse_x_hat) /\ InBox(mse_x_true)) =>
    /\ mse_loss = MinImageLoss(mse_x_hat, mse_x_true)
    /\ mse_loss = mean([p \in 1..Len(mse_x_hat) |->
                          SumTo([a \in Axes |->
                                   PeriodicSq(mse_x_hat[p][a],
                                              mse_x_true[p][a])], 3)])

(***************************************************************************)
(* C22: pooling segments of the assembled graph                            *)
(***************************************************************************)
\* the batch COO the assembler makes of the builder's list
BuiltCOO == to_coo_batch(csr_list)

\* the ids of array arr of the COO cover 0..(n - 1)
Covers(arr, n) == \A j \in 0..(n - 1) : \E e \in 1..Len(arr) : arr[e] = j

NoEmptySegment ==
  /\ BuiltCOO.ok
  /\ Covers(BuiltCOO.COO_feats[1], Len(csr_list) * Len(clone_cube))
  /\ Covers(BuiltCOO.COO_feats[2], Len(csr_list) * Len(clone_cube))
  /\ Covers(BuiltCOO.COO_feats[3], Len(csr_list))

\* C22: the COO assembled from the list of get_kneighbor_list or of
\* get_pbc_kneighbors_csr, with either include_self setting, has an edge in
\* every row segment, every column segment and every cube segment.
C22_NoEmptySegment ==
  pc \in {"pbc_done", "knn_done"} => NoEmptySegment

\* the part of C22 that the code keeps: with include_self every particle is
\* in its own row and column, and without it every row and cube is non-empty
C22_SelfLoopsCover ==
  pc \in {"pbc_done", "knn_done"} =>
    /\ BuiltCOO.ok
    /\ Covers(BuiltCOO.COO_feats[1], Len(csr_list) * Len(clone_cube))
    /\ Covers(BuiltCOO.COO_feats[3], Len(csr_list))
    /\ include_self => NoEmptySegment

(***************************************************************************)
(* graph.py: the assembler on adjacencies of any number of stored entries  *)
(***************************************************************************)
\* adjacencies over NC particles whose rows store between 0 and IrrM entries
IrregularSamples ==
  UNION {{[shape0 |-> NC,
           indptr |-> [r \in 1..(NC + 1) |->
                         IF r = 1 THEN 0
                         ELSE SumTo(cnt, r - 1)],
           indices |-> ind] : ind \in Seqs(0..(NC - 1), SumTo(cnt, NC))} :
         cnt \in [1..NC -> 0..IrrM]}

IrregularBatches ==
  UNION {[1..bsz -> IrregularSamples] : bsz \in 1..MaxB}

InitIrregular ==
  /\ pc = "coo_call"
  /\ A \in IrregularBatches
  /\ COO_feats = <<>> /\ diagonals = <<>> /\ CSR_feats = <<>>
  /\ x_hat = <<>> /\ readout_xhat = <<>>
  /\ clone_cube = <<>> /\ boundary_threshold = 0 /\ K = 0
  /\ include_self = FALSE /\ padded_cube = <<>> /\ idx_map = <<>>
  /\ kgraph_raw = <<>> /\ csr_list = <<>> /\ alist = <<>>
  /\ H_in = <<>> /\ adj = <<>> /\ bN = <<>> /\ layer_vars = <<>>
  /\ is_last = FALSE /\ H_out = <<>>
  /\ ExtIdle

SpecIrregular == InitIrregular /\ [][NextCOO]_vars

(***************************************************************************)
(* C23: batches with wrong numbers of stored entries                       *)
(***************************************************************************)
\* C23: when some adjacency of the batch does not store exactly N*M entries
\* (M the stored entries of sample 0 divided by N, rounded down),
\* to_coo_batch and to_coo_batch_ZA_diag end in an error and return nothing.
C23_WrongLengthsFail ==
  pc \in {"coo_ret", "diag_ret", "confirmed", "assertion_error"} => UniformBatch

\* the part of C23 that the code keeps: a sample whose number of stored
\* entries is neither N*M nor 1 ends both assemblers in an error
C23_FailsUnlessOneEntry ==
  pc \in {"coo_ret", "diag_ret", "confirmed", "assertion_error"} =>
    \A i \in 0..(BatchSize - 1) :
      Len(At(A, i).indices) \in {EdgesPerSample, 1}

(***************************************************************************)
(* graph.py: the 15-operator layer on a per-particle dal                   *)
(***************************************************************************)
\* dal arrays over the b*N particles with values in 0..(b*N - 1): the index
\* of the particle among the diagonal particles, in both orders, and the
\* cube of the particle
DalArrays(bsz) ==
  {[p \in 1..(bsz * LN) |-> p - 1],
   [p \in 1..(bsz * LN) |-> bsz * LN - p],
   [p \in 1..(bsz * LN) |-> (p - 1) \div LN]}

DalWeights ==
  {[i \in 1..15 |-> IF i = hot THEN 1 ELSE 0] : hot \in 11..13}
    \cup {[i \in 1..15 |-> i]}

InitDal ==
  /\ pc = "layer_call"
  /\ \E base \in LayerAdjacencies :
       \E d \in DalArrays(Len(base.dia) \div LN) :
         adj = [base EXCEPT !.dal = d]
  /\ bN = <<Len(adj.dia) \div LN, LN>>
  /\ H_in \in LayerFeatures(Len(adj.row))
  /\ layer_vars \in {<<W, <<2, 3>>>> : W \in DalWeights}
  /\ is_last \in BOOLEAN
  /\ H_out = <<>>
  /\ x_hat = <<>> /\ readout_xhat = <<>>
  /\ A = <<>> /\ COO_feats = <<>> /\ diagonals = <<>> /\ CSR_feats = <<>>
  /\ clone_cube = <<>> /\ boundary_threshold = 0 /\ K = 0
  /\ include_self = FALSE /\ padded_cube = <<>> /\ idx_map = <<>>
  /\ kgraph_raw = <<>> /\ csr_list = <<>> /\ alist = <<>>
  /\ ExtIdle

NextDal == Layer

SpecDal == InitDal /\ [][NextDal]_vars

(***************************************************************************)
(* C24: dal as a compact per-particle index                                *)
(***************************************************************************)
\* dal maps the particles into 0..(#diagonal particles - 1)
DalCompact ==
  \A p \in 1..Len(adj.dal) : adj.dal[p] \in 0..(Len(adj.dia) - 1)

\* C24: every value of a dal that maps the b*N particles into
\* 0..(#diagonal particles - 1) is a valid segment id and gather index for
\* the operators 11-13: the call does not fail and no index falls outside
\* the pooled array.
C24_DalIndexValid ==
  (pc \in {"layer_ret", "error"} /\ DalCompact) =>
    /\ pc = "layer_ret"
    /\ index_in_range(adj.dal, bN[1])

\* what the layer needs instead: dal values below the batch size b
C24_DalBelowBatchSize ==
  (pc \in {"layer_ret", "error"} /\ index_in_range(adj.dal, bN[1])) =>
    pc = "layer_ret"

(***************************************************************************)
(* C25: the seven segment id arrays                                        *)
(***************************************************************************)
\* the (row, col, depth) triplets of sample i
TripletsOf(i) ==
  LET cube == make_cube_adjacency_sparse(A_csr[i], M_nbrs)
  IN  AsArray([t \in 1..Len(cube.r) |-> <<cube.r[t], cube.c[t], cube.d[t]>>],
              Len(cube.r))

\* the axes (1 = row, 2 = col, 3 = depth) a pooling leaves apart: pooling
\* over col and depth keeps the rows apart, and so on
KeptAxes ==
  [CD |-> {1}, RD |-> {2}, RC |-> {3}, D |-> {1, 2}, C |-> {1, 3},
   R |-> {2, 3}, A |-> {}]

WideNeighbors(m) ==
  {[r \in 0..(RN - 1) |-> {(r + sh) % RN : sh \in 1..(m - 1)}],
   [r \in 0..(RN - 1) |->
      IF r = 0 THEN (RN - m + 1)..(RN - 1)
      ELSE {(r + sh) % RN : sh \in 1..(m - 1)}]}

WideSamples(m) ==
  {RotCSR(nb, m, asc) : nb \in WideNeighbors(m), asc \in BOOLEAN}

InitRotWide ==
  /\ pc = "rot_call"
  /\ M_nbrs \in {m \in 3..WideM : m <= RN}
  /\ \E bsz \in 1..RB :
       /\ A_csr \in [1..bsz -> WideSamples(M_nbrs)]
       /\ X_edges \in RotFeatures(bsz, RN * (M_nbrs - 1) * (M_nbrs - 2))
       /\ X_init \in RotPositions(bsz)
  /\ W_rot \in {init_RotInv_params(RotChannels, draw) : draw \in RotDraws}
  /\ layer_id \in 0..(Len(RotChannels) - 2)
  /\ rot_is_last = (layer_id = Len(RotChannels) - 2)
  /\ segment_idx_3D = <<>> /\ segment_idx_2D = <<>>
  /\ layer_output = <<>> /\ final_positions = <<>>
  /\ CoreIdle
  /\ NetIdle
  /\ CubeIdle
  /\ FeatIdle
  /\ LossIdle

SpecRotWide == InitRotWide /\ [][NextRot]_vars

(***************************************************************************)
(* C26: the final rotation-invariant layer                                 *)
(***************************************************************************)
\* the output of the layer that is run, before any last-layer pooling
UnpooledOutput ==
  RotInv_layer(X_edges, segment_idx_3D, W_rot, layer_id, FALSE).out

\* the distinct (row, col) pairs of the triplets of sample i
PairsOf(i) ==
  {<<segment_idx_3D[i][1][t], segment_idx_3D[i][2][t]>> :
     t \in 1..Len(segment_idx_3D[i][1])}

\* the triplets of sample i with the (row, col) pair pr
TripletsWith(i, pr) ==
  {t \in 1..Len(segment_idx_3D[i][1]) :
     segment_idx_3D[i][1][t] = pr[1] /\ segment_idx_3D[i][2][t] = pr[2]}

\* the row of the output of sample i that belongs to the pair pr: the id of
\* the pair in the depth-pooling array, counted from the sample's least id
PairRow(i, pr) ==
  LET t == CHOOSE u \in TripletsWith(i, pr) : TRUE
  IN  segment_idx_3D[i][4][t] - Min(segment_idx_3D[i][4]) + 1

\* C26: with is_last the output has N*(M-1) rows per sample, one per
\* distinct (row, col) pair, each the mean of the summed layer output over
\* the M-2 triplets of that pair; it is not broadcast back to the triplets.
C26_LastLayerDepthPool ==
  (pc \in {"rot_layer", "rot_done"} /\ rot_is_last) =>
    LET H == UnpooledOutput
    IN  \A i \in 1..Len(layer_output) :
          /\ Len(layer_output[i]) = RN * (M_nbrs - 1)
          /\ Cardinality(PairsOf(i)) = RN * (M_nbrs - 1)
          /\ {PairRow(i, pr) : pr \in PairsOf(i)} = 1..(RN * (M_nbrs - 1))
          /\ \A pr \in PairsOf(i) :
               /\ Cardinality(TripletsWith(i, pr)) = M_nbrs - 2
               /\ layer_output[i][PairRow(i, pr)]
                    = RDiv(RSumRange(TripletsWith(i, pr), H[i], 1, Len(H[i])),
                           M_nbrs - 2)

\* C26 witness: the last layer has run with non-zero weights on a batch of
\* two samples with two triplets per pair, and its output is shorter than
\* the triplet arrays and differs from pair to pair
C26_Witness ==
  /\ pc = "rot_layer" /\ rot_is_last
  /\ Len(layer_output) = 2
  /\ M_nbrs - 2 = 2
  /\ Len(layer_output[2]) < Len(X_edges[2])
  /\ layer_output[2][1] # layer_output[2][2]
  /\ A_csr[2].indices[2] > A_csr[2].indices[3]

(***************************************************************************)
(* graph.py: the builders asked for more neighbors than a sample has       *)
(* particles (the padding supplies the rest), with include_self=True       *)
(***************************************************************************)
InitSelf ==
  /\ pc = "pbc_pad"
  /\ csr_list = <<>>
  /\ clone_cube \in Cubes
  /\ boundary_threshold \in Thresholds
  /\ K \in 1..(NP + 1)
  /\ include_self = TRUE
  /\ padded_cube = <<>> /\ idx_map = <<>> /\ kgraph_raw = <<>>
  /\ alist = <<>>
  /\ x_hat = <<>> /\ readout_xhat = <<>>
  /\ A = <<>> /\ COO_feats = <<>> /\ diagonals = <<>> /\ CSR_feats = <<>>
  /\ H_in = <<>> /\ adj = <<>> /\ bN = <<>> /\ layer_vars = <<>>
  /\ is_last = FALSE /\ H_out = <<>>
  /\ ExtIdle

SpecSelf == InitSelf /\ [][NextPBC]_vars

(***************************************************************************)
(* C27: alignment of the diagonal positions                                *)
(***************************************************************************)
\* what to_coo_batch_ZA_diag makes of the builder's list
BuiltDiag == to_coo_batch_ZA_diag(csr_list)

\* diagonals holds one edge position per particle, in particle order
DiagAligned ==
  LET row == BuiltDiag.COO_feats[1]
      col == BuiltDiag.COO_feats[2]
      dia == BuiltDiag.dia
  IN  /\ BuiltDiag.ok
      /\ Len(dia) = Len(csr_list) * Len(clone_cube)
      /\ \A j \in 1..(Len(dia) - 1) : dia[j] < dia[j + 1]
      /\ \A j \in 1..Len(dia) :
           /\ 0 <= dia[j] /\ dia[j] < Len(row)
           /\ At(row, dia[j]) = j - 1
           /\ At(col, dia[j]) = j - 1

\* C27: for adjacencies of a fixed-K search with include_self=True
\* to_coo_batch_ZA_diag returns exactly b*N strictly increasing edge
\* positions with row[diagonals[j]] = col[diagonals[j]] = j.
C27_DiagonalAlignment ==
  (pc \in {"pbc_done", "knn_done"} /\ include_self) => DiagAligned

\* the part of C27 that the code keeps: the search without padding
C27_AlignedWithoutPadding ==
  (pc = "knn_done" /\ include_self) => DiagAligned

(***************************************************************************)
(* C28: distinct neighbors after the remap                                 *)
(***************************************************************************)
\* no row of the adjacency stores a column twice
DistinctColumns(csr) ==
  \A i \in 0..(csr.shape0 - 1) :
    Cardinality(Range(RowOf(csr, i))) = Len(RowOf(csr, i))

\* C28: in the adjacency returned by get_pcube_csr for a padded cube with
\* 0 < threshold < 0.5 no row contains the same column index twice.
C28_DistinctNeighbors ==
  pc = "pbc_done" => DistinctColumns(Last(csr_list))

\* the search itself never returns a padded position twice, and without
\* padding the rows have distinct columns
C28_DistinctBeforeRemap ==
  /\ pc = "pbc_done" =>
       \A i \in 0..(N - 1) :
         Cardinality(Range(SubSeq(kgraph_raw, i * K + 1, (i + 1) * K))) = K
  /\ pc = "knn_done" => DistinctColumns(Last(csr_list))

(***************************************************************************)
(* graph.py: network_func_15op_shift_inv_za and network_func_shift_inv_za  *)
(*                                                                         *)
(* layer_vars holds the variables of every layer of the session; which of  *)
(* the two functions runs is read off the number of weights of a layer.    *)
(* One action is the input layer, one is an iteration of the loop over the *)
(* hidden layers, one is the return.                                       *)
(***************************************************************************)
\* sess_mgr.get_layer_vars(layer_idx)
get_layer_vars(lvars, idx) == At(lvars, idx)

\* tf.nn.relu on one value
relu(v) == IF v[1] > 0 THEN v ELSE RZero

\* activation(H) on an array of edge features
activation(H) == [e \in 1..Len(H) |-> relu(H[e])]

\* the layer of the network function that owns the variables lv
network_layer(H, ad, bn, lv, last) ==
  IF Len(lv[1]) = 15
  THEN shift_inv_15op_layer(H, ad, bn, lv, last)
  ELSE shift_inv_layer(H, <<ad.row, ad.col, ad.all>>, bn, lv, last)

\* the variables of layer l: all weights and biases different and growing
\* with the layer
NetVars15(l) == <<[i \in 1..15 |-> i + l], <<2 + l, 3 + l>>>>
NetVars4(l) == <<[i \in 1..4 |-> i + l], 3 + l>>

InitNet ==
  /\ pc = "net_call"
  /\ num_layers \in 1..MaxLayers
  /\ \/ layer_vars = [l \in 1..num_layers |-> NetVars15(l - 1)]
     \/ layer_vars = [l \in 1..num_layers |-> NetVars4(l - 1)]
  /\ adj \in LayerAdjacencies
  /\ bN = <<Len(adj.dia) \div LN, LN>>
  /\ H_in \in LayerFeatures(Len(adj.row))
  /\ is_last = FALSE
  /\ H_out = <<>>
  /\ net_layer_idx = 0
  /\ net_calls = <<>>
  /\ x_hat = <<>> /\ readout_xhat = <<>>
  /\ A = <<>> /\ COO_feats = <<>> /\ diagonals = <<>> /\ CSR_feats = <<>>
  /\ clone_cube = <<>> /\ boundary_threshold = 0 /\ K = 0
  /\ include_self = FALSE /\ padded_cube = <<>> /\ idx_map = <<>>
  /\ kgraph_raw = <<>> /\ csr_list = <<>> /\ alist = <<>>
  /\ FeatIdle
  /\ RotIdle
  /\ LossIdle
  /\ CubeIdle

\* lines 205 / 466: the input layer, called without is_last, then activated
InputLayer ==
  /\ pc = "net_call"
  /\ H_out' = activation(network_layer(H_in, adj, bN,
                                       get_layer_vars(layer_vars, 0), FALSE))
  /\ is_last' = FALSE
  /\ net_calls' = Append(net_calls,
                         [layer |-> 0, vars |-> get_layer_vars(layer_vars, 0),
                          is_last |-> FALSE, activated |-> TRUE])
  /\ net_layer_idx' = 1
  /\ pc' = "net_loop"
  /\ UNCHANGED <<H_in, adj, bN, layer_vars, num_layers>>
  /\ UNCHANGED <<readoutVars, pbcVars, cooVars, featVars, rotVars, lossVars,
                 cubeVars>>

\* lines 209-214 / 470-475: one iteration of  for layer_idx in range(1, num_layers)
HiddenLayer ==
  /\ pc = "net_loop"
  /\ net_layer_idx < num_layers
  /\ LET last == net_layer_idx = num_layers - 1
         lv == get_layer_vars(layer_vars, net_layer_idx)
         H == network_layer(H_out, adj, bN, lv, last)
     IN  /\ is_last' = last
         /\ H_out' = IF ~last THEN activation(H) ELSE H
         /\ net_calls' = Append(net_calls,
                                [layer |-> net_layer_idx, vars |-> lv,
                                 is_last |-> last, activated |-> ~last])
  /\ net_layer_idx' = net_layer_idx + 1
  /\ pc' = "net_loop"
  /\ UNCHANGED <<H_in, adj, bN, layer_vars, num_layers>>
  /\ UNCHANGED <<readoutVars, pbcVars, cooVars, featVars, rotVars, lossVars,
                 cubeVars>>

\* lines 215 / 476: return H
NetReturn ==
  /\ pc = "net_loop"
  /\ net_layer_idx >= num_layers
  /\ pc' = "net_ret"
  /\ UNCHANGED <<layerVars, netVars>>
  /\ UNCHANGED <<readoutVars, pbcVars, cooVars, featVars, rotVars, lossVars,
                 cubeVars>>

NextNet == InputLayer \/ HiddenLayer \/ NetReturn

SpecNet == InitNet /\ [][NextNet]_vars

(***************************************************************************)
(* C29: layer sequencing                                                   *)
(***************************************************************************)
\* a (b, N, 1) array: one value per particle
PerParticle(H) ==
  /\ Len(H) = bN[1]
  /\ \A i \in 1..Len(H) : Len(H[i]) = bN[2] /\ \A p \in 1..Len(H[i]) : Len(H[i][p]) = 2

LayersInOrder ==
  /\ Len(net_calls) = num_layers
  /\ \A k \in 1..Len(net_calls) :
       /\ net_calls[k].layer = k - 1
       /\ net_calls[k].vars = layer_vars[k]

\* C29: for every num_layers >= 1 the layers run in index order, each with
\* its own variables; exactly one layer, the final one, is called with
\* is_last; every output but the final one is activated; the network
\* returns a per-particle array.
C29_LayerSequencing ==
  pc = "net_ret" =>
    /\ LayersInOrder
    /\ \A k \in 1..Len(net_calls) :
         /\ net_calls[k].is_last <=> k = num_layers
         /\ net_calls[k].activated <=> k # num_layers
    /\ PerParticle(H_out)

\* the part of C29 that the code keeps: the order and the variables for
\* every num_layers, the rest for num_layers >= 2
C29_FromTwoLayers ==
  pc = "net_ret" =>
    /\ LayersInOrder
    /\ num_layers >= 2 =>
         /\ \A k \in 1..Len(net_calls) :
              /\ net_calls[k].is_last <=> k = num_layers
              /\ net_calls[k].activated <=> k # num_layers
         /\ PerParticle(H_out)

(***************************************************************************)
(* rot_inv.py: brute-force and sparse third-order adjacency                *)
(***************************************************************************)
\* the dense form of A: an N x N matrix, the stored values of one
\* position added up
todense(a) ==
  LET rows == AsArray(expandptr(a), Len(a.indices))
  IN  [i \in 1..a.shape0 |->
         [j \in 1..a.shape0 |->
            SumTo([e \in 1..Len(a.indices) |->
                     IF rows[e] = i - 1 /\ a.indices[e] = j - 1
                     THEN a.data[e] ELSE 0], Len(a.indices))]]

\* np.nonzero of an N x N x N array: the positions of its non-zero entries
\* in row-major order, 0-based, as three index arrays
nonzero_3D(cube, n) ==
  LET flat == [q \in 1..(n * n * n) |->
                 <<(q - 1) \div (n * n), ((q - 1) \div n) % n, (q - 1) % n>>]
      keep == [q \in 1..(n * n * n) |->
                 cube[flat[q][1] + 1][flat[q][2] + 1][flat[q][3] + 1] # 0]
      hits == compress(flat, keep, 1)
  IN  [r |-> [t \in 1..Len(hits) |-> hits[t][1]],
       c |-> [t \in 1..Len(hits) |-> hits[t][2]],
       d |-> [t \in 1..Len(hits) |-> hits[t][3]]]

\* a brute-force cube that copies the row of the column instead
make_cube_adjacency_dense_col(A_dense) ==
  LET n == Len(A_dense)
      A_cube == [i \in 1..n |-> [j \in 1..n |-> [k \in 1..n |->
                   IF i = j \/ i = k \/ j = k THEN 0
                   ELSE IF A_dense[i][j] > 0 THEN A_dense[j][k] ELSE 0]]]
  IN  nonzero_3D(A_cube, n)

\* _make_cube_adjacency_dense, lines 224-243
make_cube_adjacency_dense(A_dense) ==
  LET n == Len(A_dense)
      A_cube == [i \in 1..n |-> [j \in 1..n |-> [k \in 1..n |->
                   IF i = j \/ i = k \/ j = k THEN 0
                   ELSE IF A_dense[i][j] > 0 THEN A_dense[i][k] ELSE 0]]]
  IN  nonzero_3D(A_cube, n)

\* adjacencies with m stored ones in every row, the self-loop among them,
\* every row stored in ascending column order
CubeSamples(m) ==
  {RotCSR(nb, m, TRUE) :
     nb \in {f \in [0..(RN - 1) -> SUBSET (0..(RN - 1))] :
               \A r \in 0..(RN - 1) :
                 r \notin f[r] /\ Cardinality(f[r]) = m - 1}}

InitCube ==
  /\ pc = "cube_call"
  /\ cube_m \in {m \in 1..CubeM : m <= RN}
  /\ cube_A \in CubeSamples(cube_m)
  /\ cube_sparse = <<>> /\ cube_dense = <<>>
  /\ CoreIdle
  /\ FeatIdle
  /\ RotIdle
  /\ LossIdle
  /\ NetIdle

\* _make_cube_adjacency_dense(A.todense())
MakeCubeDense ==
  /\ pc \in {"cube_call", "cube_sparse_ret"}
  /\ cube_dense' = make_cube_adjacency_dense(todense(cube_A))
  /\ pc' = IF pc = "cube_call" THEN "cube_dense_ret" ELSE "cube_done"
  /\ UNCHANGED <<cube_A, cube_m, cube_sparse>>
  /\ UNCHANGED <<readoutVars, pbcVars, cooVars, layerVars, featVars, rotVars,
                 lossVars, netVars>>

\* _make_cube_adjacency_sparse(A, m); A.setdiag(0) changes A in place
MakeCubeSparse ==
  /\ pc \in {"cube_call", "cube_dense_ret"}
  /\ LET ret == make_cube_adjacency_sparse(cube_A, cube_m)
     IN  /\ cube_A' = ret.A
         /\ cube_sparse' = [r |-> ret.r, c |-> ret.c, d |-> ret.d]
  /\ pc' = IF pc = "cube_call" THEN "cube_sparse_ret" ELSE "cube_done"
  /\ UNCHANGED <<cube_m, cube_dense>>
  /\ UNCHANGED <<readoutVars, pbcVars, cooVars, layerVars, featVars, rotVars,
                 lossVars, netVars>>

NextCube == MakeCubeDense \/ MakeCubeSparse

SpecCube == InitCube /\ [][NextCube]_vars

(***************************************************************************)
(* C30: sparse and brute-force cube agree                                  *)
(***************************************************************************)
\* C30: for an adjacency whose rows hold m non-zeros each, the self-loop
\* among them, with sorted columns, _make_cube_adjacency_sparse(A, m) and
\* _make_cube_adjacency_dense of the dense form of A return the same
\* (row, col, depth) triplets in the same order.
C30_SparseMatchesDense ==
  pc = "cube_done" => cube_sparse = cube_dense

\* C30 witness: both builders have run on an adjacency that is not
\* symmetric and returned its N*(m-1)*(m-2) > 0 triplets
C30_Witness ==
  /\ pc = "cube_done"
  /\ cube_m = 3
  /\ Len(cube_dense.r) = RN * (cube_m - 1) * (cube_m - 2)
  /\ cube_sparse.d = cube_dense.d
  /\ \E i \in 1..RN : \E j \in 1..RN :
       todense(cube_A)[i][j] # todense(cube_A)[j][i]

====
